---- MODULE Spec2Model ----
(***************************************************************************)
(* Model of src/datastructure.c of pi-hole FTL: the identity resolvers     *)
(* (domains, clients, DNS cache), the per-client counters with alias       *)
(* fan-out, and the query status state machine with its histogram and      *)
(* overTime counters.                                                      *)
(***************************************************************************)
EXTENDS Integers, Sequences, FiniteSets, TLC

(***************************************************************************)
(* Bounds of the model.                                                    *)
(***************************************************************************)
\* Query records the history may hold.
MaxQueries == 2
\* Number of overTime slots (scaled down from the build's value).
OVERTIME_SLOTS == 2
\* Slots the shared memory of one record kind holds: the accessor of a kind
\* returns NULL for an index at or beyond it.
MaxSlots == 3
\* Largest sum the counters of the records of one kind may reach.
MaxCount == 2

\* The liveness tag of a record in use; a free slot holds 0x00.
MAGICBYTE == 87

(***************************************************************************)
(* enum query_status, in the order of query_status_str().                  *)
(***************************************************************************)
QUERY_UNKNOWN == 0
QUERY_GRAVITY == 1
QUERY_FORWARDED == 2
QUERY_CACHE == 3
QUERY_REGEX == 4
QUERY_DENYLIST == 5
QUERY_EXTERNAL_BLOCKED_IP == 6
QUERY_EXTERNAL_BLOCKED_NULL == 7
QUERY_EXTERNAL_BLOCKED_NXRA == 8
QUERY_GRAVITY_CNAME == 9
QUERY_REGEX_CNAME == 10
QUERY_DENYLIST_CNAME == 11
QUERY_RETRIED == 12
QUERY_RETRIED_DNSSEC == 13
QUERY_IN_PROGRESS == 14
QUERY_DBBUSY == 15
QUERY_SPECIAL_DOMAIN == 16
QUERY_CACHE_STALE == 17
QUERY_STATUS_MAX == 18

\* The valid statuses: the slots of the histogram counters->status[].
ValidStatus == 0 .. (QUERY_STATUS_MAX - 1)

\* The values the model passes as new_status: of every class of statuses the
\* code tells apart (blocked, QUERY_CACHE, QUERY_CACHE_STALE, QUERY_FORWARDED,
\* the retried ones, the rest) at least one, and an out-of-range value.
StatusArg ==
    {QUERY_UNKNOWN, QUERY_GRAVITY, QUERY_FORWARDED, QUERY_CACHE, QUERY_RETRIED,
     QUERY_DBBUSY, QUERY_CACHE_STALE, QUERY_STATUS_MAX}

VARIABLES
    counters,   \* counters->queries, ->domains, ->status[], ...
    overTime,   \* overTime[slot]: total, blocked, cached, forwarded
    queries,    \* queries[i]: the query records 0 .. counters.queries-1
    domains,    \* domains[i]: the domain slots of the shared memory
    clients,    \* clients[i]: the client slots of the shared memory
    dns_cache,  \* dns_cache[i]: the cache slots of the shared memory
    upstreams,  \* upstreams[i]: the upstream slots of the shared memory
    strpool,    \* the string pool: strpool[pos] is the string stored at pos
    calls,      \* calls[i]: history of the client in slot i (see FindClient)
    events,     \* the events that are pending (set_event)
    startup,    \* whether the history is still being imported (bool startup)
    shm_lock,   \* the context that holds the shared-memory lock, or "free"
    reload,     \* FTL_reload_all_domainlists: the statement it is at, its loop index
    gravityDB,  \* gravityDB[table]: the number of rows of a table of the database
    creating,   \* the creation of a record a find-or-create is in the middle of
    focus,      \* the part of the store a behaviour works on
    last        \* the call made last and what it did

vars == <<counters, overTime, queries, domains, clients, dns_cache, upstreams, strpool,
          calls,
          events, startup, shm_lock, reload, gravityDB, creating, focus, last>>

(***************************************************************************)
(* Classification of statuses.                                             *)
(***************************************************************************)
is_blocked(status) ==
    status \in {QUERY_GRAVITY, QUERY_REGEX, QUERY_DENYLIST,
                QUERY_EXTERNAL_BLOCKED_IP, QUERY_EXTERNAL_BLOCKED_NULL,
                QUERY_EXTERNAL_BLOCKED_NXRA, QUERY_GRAVITY_CNAME,
                QUERY_REGEX_CNAME, QUERY_DENYLIST_CNAME, QUERY_DBBUSY,
                QUERY_SPECIAL_DOMAIN}

is_cached(status) == status \in {QUERY_CACHE, QUERY_CACHE_STALE}

\* Slot of a timestamp; timestamps are counted in slot widths from the first
\* slot, and the result is clamped to the valid slots.
getOverTimeID(timestamp) ==
    IF timestamp < 0 THEN 0
    ELSE IF timestamp > OVERTIME_SLOTS - 1 THEN OVERTIME_SLOTS - 1
    ELSE timestamp

(***************************************************************************)
(* uint32_t arithmetic. A value is kept as two 16-bit halves, hi * 2^16 +  *)
(* lo, so that no intermediate result leaves the range of the checker's    *)
(* integers.                                                               *)
(***************************************************************************)
Half == 65536

RECURSIVE Xor16(_, _)
Xor16(a, b) ==
    IF a = 0 THEN b
    ELSE IF b = 0 THEN a
    ELSE (((a % 2) + (b % 2)) % 2) + 2 * Xor16(a \div 2, b \div 2)

U32(hi, lo) == [hi |-> hi, lo |-> lo]
U32Add(x, y) ==
    LET lo == x.lo + y.lo
    IN  U32((x.hi + y.hi + (lo \div Half)) % Half, lo % Half)
U32Xor(x, y) == U32(Xor16(x.hi, y.hi), Xor16(x.lo, y.lo))
\* x << k and x >> k for 0 < k < 16, with 2^k passed as p.
U32Shl(x, p) == U32(((x.hi * p) + ((x.lo * p) \div Half)) % Half, (x.lo * p) % Half)
U32Shr(x, p) == U32(x.hi \div p, (x.lo \div p) + ((x.hi % p) * (Half \div p)))

(***************************************************************************)
(* hashStr: Jenkins' one-at-a-time hash of a string (a sequence of bytes). *)
(***************************************************************************)
RECURSIVE hashLoop(_, _, _)
hashLoop(hash, s, i) ==
    IF i > Len(s) THEN hash
    ELSE LET h1 == U32Add(hash, U32(0, s[i]))
             h2 == U32Add(h1, U32Shl(h1, 1024))
             h3 == U32Xor(h2, U32Shr(h2, 64))
         IN  hashLoop(h3, s, i + 1)

hashOf(s) ==
    LET h0 == hashLoop(U32(0, 0), s, 1)
        h1 == U32Add(h0, U32Shl(h0, 8))
        h2 == U32Xor(h1, U32Shr(h1, 2048))
    IN  U32Add(h2, U32Shl(h2, 32768))

\* The strings the model passes as domain names (byte sequences).
DomainNames == {<<97>>, <<98>>, <<97, 98>>}

\* Two names with the same hash ("aqaa", "elue") and one with another ("b").
CollidingNames == {<<97, 113, 97, 97>>, <<101, 108, 117, 101>>, <<98>>}

\* hashStr(s), computed once for the strings of the model.
hashTable == [s \in DomainNames \cup CollidingNames \cup {<< >>} |-> hashOf(s)]
hashStr(s) == hashTable[s]

(***************************************************************************)
(* Helpers.                                                                *)
(***************************************************************************)
RECURSIVE SumTo(_, _)
\* f[0] + ... + f[n]
SumTo(f, n) == IF n < 0 THEN 0 ELSE f[n] + SumTo(f, n - 1)

\* The part of the state _query_set_status reads and writes.
StatusState == [status |-> counters.status, overTime |-> overTime, queries |-> queries]

\* Mutant: a query that becomes blocked is taken out of the slot's total.
overTimeStatusUpdate_total(slot, old_status, new_status, init) ==
    [slot EXCEPT
        !.total = IF is_blocked(new_status) /\ ~is_blocked(old_status) THEN @ - 1 ELSE @,
        !.blocked = (IF is_blocked(old_status) /\ ~init THEN @ - 1 ELSE @)
                    + (IF is_blocked(new_status) THEN 1 ELSE 0),
        !.cached = (IF (old_status = QUERY_CACHE \/ old_status = QUERY_CACHE_STALE)
                       /\ ~init THEN @ - 1 ELSE @)
                   + (IF new_status = QUERY_CACHE \/ new_status = QUERY_CACHE_STALE
                      THEN 1 ELSE 0),
        !.forwarded = (IF old_status = QUERY_FORWARDED /\ ~init THEN @ - 1 ELSE @)
                      + (IF new_status = QUERY_FORWARDED THEN 1 ELSE 0)]

\* Effect of a valid, changing call on the overTime slot of the query.
overTimeStatusUpdate(slot, old_status, new_status, init) ==
    LET blocked1 == IF is_blocked(old_status) /\ ~init
                    THEN slot.blocked - 1 ELSE slot.blocked
        blocked2 == IF is_blocked(new_status) THEN blocked1 + 1 ELSE blocked1
        cached1 == IF (old_status = QUERY_CACHE \/ old_status = QUERY_CACHE_STALE) /\ ~init
                   THEN slot.cached - 1 ELSE slot.cached
        cached2 == IF new_status = QUERY_CACHE \/ new_status = QUERY_CACHE_STALE
                   THEN cached1 + 1 ELSE cached1
        forwarded1 == IF old_status = QUERY_FORWARDED /\ ~init
                      THEN slot.forwarded - 1 ELSE slot.forwarded
        forwarded2 == IF new_status = QUERY_FORWARDED
                      THEN forwarded1 + 1 ELSE forwarded1
    IN  [slot EXCEPT !.blocked = blocked2, !.cached = cached2,
                     !.forwarded = forwarded2]

\* Mutant: the histogram slot of the old status is decremented on the
\* initial assignment too.
query_set_status_decinit(st, q, new_status, init) ==
    IF new_status >= QUERY_STATUS_MAX THEN st
    ELSE
    LET query == st.queries[q]
        old_status == query.status
    IN  IF old_status = new_status /\ ~init THEN st
        ELSE
        LET removed == [st.status EXCEPT ![old_status] = @ - 1]
            status2 == [removed EXCEPT ![new_status] = @ + 1]
            timeidx == getOverTimeID(query.timestamp)
        IN  [status   |-> status2,
             overTime |-> [st.overTime EXCEPT ![timeidx] =
                              overTimeStatusUpdate(@, old_status, new_status, init)],
             queries  |-> [st.queries EXCEPT ![q].status = new_status]]

\* Mutant: the histogram slot of the old status is not decremented.
query_set_status_nodec(st, q, new_status, init) ==
    IF new_status >= QUERY_STATUS_MAX THEN st
    ELSE
    LET query == st.queries[q]
        old_status == query.status
    IN  IF old_status = new_status /\ ~init THEN st
        ELSE
        LET timeidx == getOverTimeID(query.timestamp)
        IN  [status   |-> [st.status EXCEPT ![new_status] = @ + 1],
             overTime |-> [st.overTime EXCEPT ![timeidx] =
                              overTimeStatusUpdate(@, old_status, new_status, init)],
             queries  |-> [st.queries EXCEPT ![q].status = new_status]]

\* Mutant: the old status is not taken out of the overTime slot.
query_set_status_stale(st, q, new_status, init) ==
    IF new_status >= QUERY_STATUS_MAX THEN st
    ELSE
    LET query == st.queries[q]
        old_status == query.status
    IN  IF old_status = new_status /\ ~init THEN st
        ELSE
        LET removed == IF ~init THEN [st.status EXCEPT ![old_status] = @ - 1]
                       ELSE st.status
            timeidx == getOverTimeID(query.timestamp)
        IN  [status   |-> [removed EXCEPT ![new_status] = @ + 1],
             overTime |-> [st.overTime EXCEPT ![timeidx] =
                              overTimeStatusUpdate(@, old_status, new_status, TRUE)],
             queries  |-> [st.queries EXCEPT ![q].status = new_status]]

\* Mutant: the new status is not stored on the query.
query_set_status_nostore(st, q, new_status, init) ==
    IF new_status >= QUERY_STATUS_MAX THEN st
    ELSE
    LET query == st.queries[q]
        old_status == query.status
    IN  IF old_status = new_status /\ ~init THEN st
        ELSE
        LET removed == IF ~init THEN [st.status EXCEPT ![old_status] = @ - 1]
                       ELSE st.status
            timeidx == getOverTimeID(query.timestamp)
        IN  [status   |-> [removed EXCEPT ![new_status] = @ + 1],
             overTime |-> [st.overTime EXCEPT ![timeidx] =
                              overTimeStatusUpdate(@, old_status, new_status, init)],
             queries  |-> st.queries]

\* Mutant: the status is stored before the sanity check.
query_set_status_nocheck(st, q, new_status, init) ==
    LET query == st.queries[q]
        old_status == query.status
    IN  IF new_status >= QUERY_STATUS_MAX
        THEN [st EXCEPT !.queries[q].status = new_status]
        ELSE IF old_status = new_status /\ ~init THEN st
        ELSE
        LET removed == IF ~init THEN [st.status EXCEPT ![old_status] = @ - 1]
                       ELSE st.status
            timeidx == getOverTimeID(query.timestamp)
        IN  [status   |-> [removed EXCEPT ![new_status] = @ + 1],
             overTime |-> [st.overTime EXCEPT ![timeidx] =
                              overTimeStatusUpdate(@, old_status, new_status, init)],
             queries  |-> [st.queries EXCEPT ![q].status = new_status]]

(***************************************************************************)
(* _query_set_status(query, new_status, init), as a function from the      *)
(* state before the call to the state after it.                            *)
(***************************************************************************)
query_set_status(st, q, new_status, init) ==
    \* Sanity check
    IF new_status >= QUERY_STATUS_MAX THEN st
    ELSE
    LET query == st.queries[q]
        old_status == query.status
    IN  IF old_status = new_status /\ ~init THEN st   \* Nothing to do
        ELSE
        LET removed == IF ~init THEN [st.status EXCEPT ![old_status] = @ - 1]
                       ELSE st.status
            status2 == [removed EXCEPT ![new_status] = @ + 1]
            timeidx == getOverTimeID(query.timestamp)
        IN  [status   |-> status2,
             overTime |-> [st.overTime EXCEPT ![timeidx] =
                              overTimeStatusUpdate(@, old_status, new_status, init)],
             queries  |-> [st.queries EXCEPT ![q].status = new_status]]

(***************************************************************************)
(* The string pool. Position 0 holds the empty string; addstr interns: a   *)
(* string the pool holds keeps its position, a new one is appended.        *)
(***************************************************************************)
getstr(pool, pos) == IF pos = 0 THEN << >> ELSE pool[pos]
addstr(pool, str) ==
    IF str = << >> THEN [pool |-> pool, pos |-> 0]
    ELSE IF \E p \in DOMAIN pool : pool[p] = str
    THEN [pool |-> pool, pos |-> CHOOSE p \in DOMAIN pool : pool[p] = str]
    ELSE [pool |-> Append(pool, str), pos |-> Len(pool) + 1]

(***************************************************************************)
(* Domains.                                                                *)
(***************************************************************************)
\* A slot of zeroed shared memory.
ZeroDomain ==
    [magic |-> 0, domainpos |-> 0, domainhash |-> U32(0, 0), count |-> 0,
     blockedcount |-> 0]

\* getDomain(domainID, checkMagic) # NULL
getDomain(doms, domainID, checkMagic) ==
    /\ domainID \in DOMAIN doms
    /\ checkMagic => doms[domainID].magic = MAGICBYTE

RECURSIVE nextFreeDomainFrom(_, _, _)
nextFreeDomainFrom(doms, n, domainID) ==
    IF domainID >= n THEN n
    ELSE IF ~getDomain(doms, domainID, FALSE) THEN nextFreeDomainFrom(doms, n, domainID + 1)
    ELSE IF doms[domainID].magic = 0 THEN domainID
    ELSE nextFreeDomainFrom(doms, n, domainID + 1)

\* get_next_free_domainID() with counters->domains = n
get_next_free_domainID(doms, n) == nextFreeDomainFrom(doms, n, 0)

\* Mutant: a slot whose hash matches is taken for the domain.
RECURSIVE scanDomains_hashonly(_, _, _, _, _, _)
scanDomains_hashonly(doms, n, pool, domainString, domainHash, domainID) ==
    IF domainID >= n THEN -1
    ELSE IF ~getDomain(doms, domainID, FALSE)
         THEN scanDomains_hashonly(doms, n, pool, domainString, domainHash, domainID + 1)
    ELSE IF doms[domainID].domainhash = domainHash THEN domainID
    ELSE scanDomains_hashonly(doms, n, pool, domainString, domainHash, domainID + 1)

\* The lookup loop of _findDomainID from slot domainID on: the first slot that
\* holds the hash and the name, or -1.
RECURSIVE scanDomains(_, _, _, _, _, _)
scanDomains(doms, n, pool, domainString, domainHash, domainID) ==
    IF domainID >= n THEN -1
    ELSE IF ~getDomain(doms, domainID, FALSE)
         THEN scanDomains(doms, n, pool, domainString, domainHash, domainID + 1)
    ELSE IF doms[domainID].domainhash # domainHash
         THEN scanDomains(doms, n, pool, domainString, domainHash, domainID + 1)
    ELSE IF getstr(pool, doms[domainID].domainpos) = domainString THEN domainID
    ELSE scanDomains(doms, n, pool, domainString, domainHash, domainID + 1)

\* _findDomainID after its lookup loop has ended with hit (the slot found,
\* or -1). D is the state it works on: the slots, counters->domains (n) and
\* the string pool; the result is the state after the call and the
\* returned ID.
findDomainIDAfter(D, domainString, count, hit) ==
        IF hit >= 0
        THEN [domains |-> IF count THEN [D.domains EXCEPT ![hit].count = @ + 1]
                          ELSE D.domains,
              n |-> D.n, strpool |-> D.strpool, ret |-> hit, created |-> FALSE]
        ELSE
        LET domainID == get_next_free_domainID(D.domains, D.n)
        IN  IF ~getDomain(D.domains, domainID, FALSE)
            THEN [domains |-> D.domains, n |-> D.n, strpool |-> D.strpool,
                  ret |-> -1, created |-> FALSE]
            ELSE
            LET added == addstr(D.strpool, domainString)
            IN  [domains |-> [D.domains EXCEPT ![domainID] =
                                 [magic |-> MAGICBYTE,
                                  count |-> IF count THEN 1 ELSE 0,
                                  blockedcount |-> 0,
                                  domainpos |-> added.pos,
                                  domainhash |-> hashStr(domainString)]],
                 n |-> D.n + 1, strpool |-> added.pool, ret |-> domainID,
                 created |-> TRUE]

\* _findDomainID whose lookup loop starts at slot first.
findDomainIDFrom(D, domainString, count, first) ==
    findDomainIDAfter(D, domainString, count,
                      scanDomains(D.domains, D.n, D.strpool, domainString,
                                  hashStr(domainString), first))

\* Mutant: the lookup loop starts at slot 1.
findDomainID_skipfirst(D, domainString, count) ==
    findDomainIDFrom(D, domainString, count, 1)

findDomainID(D, domainString, count) == findDomainIDFrom(D, domainString, count, 0)

(***************************************************************************)
(* Clients.                                                                *)
(***************************************************************************)
\* The strings the model passes as client IPs ("10", "11") and as the name
\* of an alias-client ("a").
ClientIPs == {<<49, 48>>, <<49, 49>>}
AliasNames == {<<97>>}

\* A slot of zeroed shared memory.
ZeroClient ==
    [magic |-> 0, count |-> 0, blockedcount |-> 0, ippos |-> 0, namepos |-> 0,
     overTime |-> [b \in 0 .. (OVERTIME_SLOTS - 1) |-> 0],
     aliasclient |-> FALSE, aliasclient_id |-> 0, id |-> 0]

\* getClient(clientID, checkMagic) # NULL
getClient(cls, clientID, checkMagic) ==
    /\ clientID \in DOMAIN cls
    /\ checkMagic => cls[clientID].magic = MAGICBYTE

\* First character of a C string (its terminating 0 when it is empty).
FirstChar(str) == IF str = << >> THEN 0 ELSE str[1]

\* Mutant: the call changes nothing.
change_clientcount_dropped(cls, ot, clientID, total, blocked, overTimeIdx, overTimeMod) ==
    [clients |-> cls, overTime |-> ot]

\* Mutant: the deltas are added to the client and to the global slot, not to
\* the alias-client.
change_clientcount_nofan(cls, ot, clientID, total, blocked, overTimeIdx, overTimeMod) ==
    LET inRange == overTimeIdx > -1 /\ overTimeIdx < OVERTIME_SLOTS
    IN  [clients |-> [cls EXCEPT ![clientID] =
                         [@ EXCEPT !.count = @ + total,
                                   !.blockedcount = @ + blocked,
                                   !.overTime = IF inRange
                                       THEN [@ EXCEPT ![overTimeIdx] = @ + overTimeMod]
                                       ELSE @]],
         overTime |-> IF inRange
                      THEN [ot EXCEPT ![overTimeIdx].total = @ + overTimeMod]
                      ELSE ot]

\* change_clientcount(client, total, blocked, overTimeIdx, overTimeMod) on
\* the client in slot clientID; cls are the client slots, ot the global
\* overTime array. A linked alias-client is taken to be live.
change_clientcount(cls, ot, clientID, total, blocked, overTimeIdx, overTimeMod) ==
    LET inRange == overTimeIdx > -1 /\ overTimeIdx < OVERTIME_SLOTS
        cls1 == [cls EXCEPT ![clientID] =
                    [@ EXCEPT !.count = @ + total,
                              !.blockedcount = @ + blocked,
                              !.overTime = IF inRange
                                  THEN [@ EXCEPT ![overTimeIdx] = @ + overTimeMod]
                                  ELSE @]]
        ot1 == IF inRange THEN [ot EXCEPT ![overTimeIdx].total = @ + overTimeMod]
               ELSE ot
        aliasID == cls[clientID].aliasclient_id
    IN  IF cls[clientID].aliasclient
        THEN [clients |-> cls1, overTime |-> ot1]   \* warning, return
        ELSE IF aliasID > -1
        THEN [clients |-> [cls1 EXCEPT ![aliasID] =
                              [@ EXCEPT !.count = @ + total,
                                        !.blockedcount = @ + blocked,
                                        !.overTime = IF inRange
                                            THEN [@ EXCEPT ![overTimeIdx] = @ + overTimeMod]
                                            ELSE @]],
              overTime |-> ot1]
        ELSE [clients |-> cls1, overTime |-> ot1]

RECURSIVE nextFreeClientFrom(_, _, _)
nextFreeClientFrom(cls, n, clientID) ==
    IF clientID >= n THEN n
    ELSE IF ~getClient(cls, clientID, FALSE) THEN nextFreeClientFrom(cls, n, clientID + 1)
    ELSE IF cls[clientID].magic = 0 THEN clientID
    ELSE nextFreeClientFrom(cls, n, clientID + 1)

\* Mutant: the highest dead slot is taken instead of the lowest.
get_next_free_clientID_highest(cls, n) ==
    LET dead == {i \in DOMAIN cls : i < n /\ cls[i].magic = 0}
    IN  IF dead = {} THEN n ELSE CHOOSE i \in dead : \A j \in dead : j <= i

\* get_next_free_clientID() with counters->clients = n
get_next_free_clientID(cls, n) == nextFreeClientFrom(cls, n, 0)

\* Mutant: the lookup loop does not test the liveness tag.
RECURSIVE scanClients_nomagic(_, _, _, _, _)
scanClients_nomagic(cls, n, pool, clientIP, clientID) ==
    IF clientID >= n THEN -1
    ELSE IF ~getClient(cls, clientID, FALSE)
         THEN scanClients_nomagic(cls, n, pool, clientIP, clientID + 1)
    ELSE IF getstr(pool, cls[clientID].ippos) = clientIP THEN clientID
    ELSE scanClients_nomagic(cls, n, pool, clientIP, clientID + 1)

\* The lookup loop of _findClientID from slot clientID on: the first live slot
\* that holds the IP, or -1.
RECURSIVE scanClients(_, _, _, _, _)
scanClients(cls, n, pool, clientIP, clientID) ==
    IF clientID >= n THEN -1
    ELSE IF ~getClient(cls, clientID, TRUE)
         THEN scanClients(cls, n, pool, clientIP, clientID + 1)
    ELSE IF FirstChar(getstr(pool, cls[clientID].ippos)) # FirstChar(clientIP)
         THEN scanClients(cls, n, pool, clientIP, clientID + 1)
    ELSE IF getstr(pool, cls[clientID].ippos) = clientIP THEN clientID
    ELSE scanClients(cls, n, pool, clientIP, clientID + 1)

\* reset_aliasclient(NULL, client) for the new client in slot clientID, whose
\* governing alias-client the rule engine found to be link (-1: none): the
\* client is linked and its counters are taken into the alias-client's.
reset_aliasclient(cls, clientID, link) ==
    IF link < 0 THEN cls
    ELSE [cls EXCEPT ![clientID].aliasclient_id = link,
                     ![link].count = @ + cls[clientID].count]

\* A call the creation path makes to a collaborator, and counters->clients
\* at the time of the call.
Effect(call, n) == [call |-> call, clients |-> n]

\* Mutant: all three calls are made after the count increase, and only for
\* a concrete client after startup.
creation_effects_gated(n, isStartup, aliasclient) ==
    IF isStartup \/ aliasclient THEN << >>
    ELSE <<Effect("set_event", n + 1), Effect("reload_per_client_regex", n + 1),
           Effect("reset_aliasclient", n + 1)>>

\* The calls the creation path of _findClientID makes to its collaborators,
\* in their order; n is counters->clients at entry.
creation_effects(n, isStartup, aliasclient) ==
    <<Effect("set_event", n)>>
    \o (IF ~isStartup /\ ~aliasclient
        THEN <<Effect("reload_per_client_regex", n + 1)>> ELSE << >>)
    \o (IF ~aliasclient THEN <<Effect("reset_aliasclient", n + 1)>> ELSE << >>)

\* _findClientID(clientIP, count, aliasclient) after its lookup loop has
\* ended with hit (the slot found, or -1). S is the state it works on:
\* the client slots, counters->clients (n), the string pool, the global
\* overTime array, the pending events and the startup flag; link is what
\* reset_aliasclient finds for a new client. The result is the state after
\* the call, the returned ID, and (effects) the calls it made to the event
\* queue, the regex engine and the alias-client rules, in their order, each
\* with the value counters->clients had when it was made.
findClientIDAfter(S, clientIP, count, aliasclient, link, hit) ==
    LET same == [clients |-> S.clients, overTime |-> S.overTime, n |-> S.n,
                 strpool |-> S.strpool, ret |-> -1, created |-> FALSE,
                 events |-> S.events, effects |-> << >>]
    IN  IF hit >= 0
        THEN IF count /\ ~aliasclient
             THEN LET c == change_clientcount(S.clients, S.overTime, hit, 1, 0, -1, 0)
                  IN  [same EXCEPT !.clients = c.clients, !.overTime = c.overTime,
                                   !.ret = hit]
             ELSE [same EXCEPT !.ret = hit]
        ELSE IF ~count /\ ~aliasclient THEN same
        ELSE
        LET clientID == get_next_free_clientID(S.clients, S.n)
        IN  IF ~getClient(S.clients, clientID, FALSE) THEN same
            ELSE
            LET added == addstr(S.strpool, clientIP)
                new == [magic |-> MAGICBYTE,
                        count |-> IF count /\ ~aliasclient THEN 1 ELSE 0,
                        blockedcount |-> 0,
                        ippos |-> added.pos,
                        namepos |-> 0,
                        aliasclient |-> aliasclient,
                        aliasclient_id |-> -1,
                        overTime |-> [b \in 0 .. (OVERTIME_SLOTS - 1) |-> 0],
                        id |-> clientID]
                cls1 == [S.clients EXCEPT ![clientID] = new]
            IN  [clients |-> IF ~aliasclient THEN reset_aliasclient(cls1, clientID, link)
                             ELSE cls1,
                 overTime |-> S.overTime, n |-> S.n + 1, strpool |-> added.pool,
                 ret |-> clientID, created |-> TRUE,
                 events |-> S.events \cup {"RESOLVE_NEW_HOSTNAMES"},
                 effects |-> creation_effects(S.n, S.startup, aliasclient)]

\* _findClientID(clientIP, count, aliasclient): the lookup loop, then the
\* rest.
findClientID(S, clientIP, count, aliasclient, link) ==
    findClientIDAfter(S, clientIP, count, aliasclient, link,
                      scanClients(S.clients, S.n, S.strpool, clientIP, 0))

(***************************************************************************)
(* DNS cache entries.                                                      *)
(***************************************************************************)
\* The blocking status a new cache entry gets.
UNKNOWN_BLOCKED == 0

\* The keys <<domainID, clientID, query_type>> the model looks up.
CacheKeys == {<<0, 0, 1>>, <<1, 0, 1>>, <<0, 0, 2>>}

\* A slot of zeroed shared memory.
ZeroCache ==
    [magic |-> 0, blocking_status |-> 0, domainID |-> 0, clientID |-> 0,
     query_type |-> 0, force_reply |-> 0, list_id |-> 0]

\* getDNSCache(cacheID, checkMagic) # NULL
getDNSCache(cache, cacheID, checkMagic) ==
    /\ cacheID \in DOMAIN cache
    /\ checkMagic => cache[cacheID].magic = MAGICBYTE

RECURSIVE nextFreeCacheFrom(_, _, _)
nextFreeCacheFrom(cache, n, cacheID) ==
    IF cacheID >= n THEN n
    ELSE IF ~getDNSCache(cache, cacheID, FALSE) THEN nextFreeCacheFrom(cache, n, cacheID + 1)
    ELSE IF cache[cacheID].magic = 0 THEN cacheID
    ELSE nextFreeCacheFrom(cache, n, cacheID + 1)

\* get_next_free_cacheID() with counters->dns_cache_size = n
get_next_free_cacheID(cache, n) == nextFreeCacheFrom(cache, n, 0)

\* The lookup loop of _findCacheID from slot cacheID on: the first live slot
\* that holds the key, or -1.
RECURSIVE scanCache(_, _, _, _, _, _)
scanCache(cache, n, domainID, clientID, query_type, cacheID) ==
    IF cacheID >= n THEN -1
    ELSE IF ~getDNSCache(cache, cacheID, TRUE)
         THEN scanCache(cache, n, domainID, clientID, query_type, cacheID + 1)
    ELSE IF /\ cache[cacheID].domainID = domainID
            /\ cache[cacheID].clientID = clientID
            /\ cache[cacheID].query_type = query_type
         THEN cacheID
    ELSE scanCache(cache, n, domainID, clientID, query_type, cacheID + 1)

\* _findCacheID(domainID, clientID, query_type, create_new). K is the state
\* it works on: the cache slots and counters->dns_cache_size (n); the result
\* is the state after the call and the returned ID.
findCacheID(K, domainID, clientID, query_type, create_new) ==
    LET hit == scanCache(K.dns_cache, K.n, domainID, clientID, query_type, 0)
        same == [dns_cache |-> K.dns_cache, n |-> K.n, ret |-> -1, created |-> FALSE]
    IN  IF hit >= 0 THEN [same EXCEPT !.ret = hit]
        ELSE IF ~create_new THEN same
        ELSE
        LET cacheID == get_next_free_cacheID(K.dns_cache, K.n)
        IN  IF ~getDNSCache(K.dns_cache, cacheID, FALSE) THEN same
            ELSE [dns_cache |-> [K.dns_cache EXCEPT ![cacheID] =
                                    [magic |-> MAGICBYTE,
                                     blocking_status |-> UNKNOWN_BLOCKED,
                                     domainID |-> domainID,
                                     clientID |-> clientID,
                                     query_type |-> query_type,
                                     force_reply |-> 0,
                                     list_id |-> -1]],
                  n |-> K.n + 1, ret |-> cacheID, created |-> TRUE]

(***************************************************************************)
(* Upstream servers.                                                       *)
(***************************************************************************)
\* The upstream addresses and ports the model looks up.
UpstreamAddrs == {<<56>>, <<57>>}
UpstreamPorts == {53, 54}

\* A slot of zeroed shared memory.
ZeroUpstream ==
    [magic |-> 0, ippos |-> 0, port |-> 0, failed |-> 0, new |-> FALSE, namepos |-> 0,
     responses |-> 0]

\* getUpstream(upstreamID, checkMagic) # NULL
getUpstream(ups, upstreamID, checkMagic) ==
    /\ upstreamID \in DOMAIN ups
    /\ checkMagic => ups[upstreamID].magic = MAGICBYTE

\* The lookup loop of _findUpstreamID from slot upstreamID on: the first slot
\* that holds the address and the port, or -1.
RECURSIVE scanUpstreams(_, _, _, _, _, _)
scanUpstreams(ups, n, pool, upstreamString, port, upstreamID) ==
    IF upstreamID >= n THEN -1
    ELSE IF ~getUpstream(ups, upstreamID, FALSE)
         THEN scanUpstreams(ups, n, pool, upstreamString, port, upstreamID + 1)
    ELSE IF /\ getstr(pool, ups[upstreamID].ippos) = upstreamString
            /\ ups[upstreamID].port = port
         THEN upstreamID
    ELSE scanUpstreams(ups, n, pool, upstreamString, port, upstreamID + 1)

\* Mutant: a new upstream gets the lowest slot below counters->upstreams that
\* is not live, if there is one.
new_upstreamID_reuse(ups, n) ==
    LET dead == {i \in DOMAIN ups : i < n /\ ups[i].magic # MAGICBYTE}
    IN  IF dead = {} THEN n ELSE CHOOSE i \in dead : \A j \in dead : i <= j

\* The ID _findUpstreamID gives a new upstream: counters->upstreams.
new_upstreamID(ups, n) == n

\* Mutant: the event is raised before the new slot is asked for.
upstream_memory_error_event(U) ==
    [upstreams |-> U.upstreams, n |-> U.n, strpool |-> U.strpool,
     events |-> U.events \cup {"RESOLVE_NEW_HOSTNAMES"}, ret |-> -1, created |-> FALSE]

\* The return of _findUpstreamID when the arena has no slot for the new ID.
upstream_memory_error(U) ==
    [upstreams |-> U.upstreams, n |-> U.n, strpool |-> U.strpool,
     events |-> U.events, ret |-> -1, created |-> FALSE]

\* _findUpstreamID(upstreamString, port). U is the state it works on: the
\* upstream slots, counters->upstreams (n), the string pool and the pending
\* events; the result is the state after the call and the returned ID.
findUpstreamID(U, upstreamString, port) ==
    LET hit == scanUpstreams(U.upstreams, U.n, U.strpool, upstreamString, port, 0)
        same == [upstreams |-> U.upstreams, n |-> U.n, strpool |-> U.strpool,
                 events |-> U.events, ret |-> -1, created |-> FALSE]
    IN  IF hit >= 0 THEN [same EXCEPT !.ret = hit]
        ELSE
        LET upstreamID == new_upstreamID(U.upstreams, U.n)
        IN  IF ~getUpstream(U.upstreams, upstreamID, FALSE) THEN upstream_memory_error(U)
            ELSE
            LET added == addstr(U.strpool, upstreamString)
            IN  [upstreams |-> [U.upstreams EXCEPT ![upstreamID] =
                                   [magic |-> MAGICBYTE, ippos |-> added.pos,
                                    port |-> port, failed |-> 0, new |-> TRUE,
                                    namepos |-> 0, responses |-> 0]],
                 n |-> U.n + 1, strpool |-> added.pool,
                 events |-> U.events \cup {"RESOLVE_NEW_HOSTNAMES"},
                 ret |-> upstreamID, created |-> TRUE]

(***************************************************************************)
(* The gravity database and counters->database.                            *)
(***************************************************************************)
Tables ==
    {"GRAVITY_TABLE", "GROUPS_TABLE", "CLIENTS_TABLE", "ADLISTS_TABLE",
     "BULKLISTS_TABLE", "ALLOWED_DOMAINS_TABLE", "DENIED_DOMAINS_TABLE"}

\* MaxRows: the most rows the allowed- and the denied-domains table hold.
MaxRows == 1

\* The row counts the model gives the tables: those of the allowed- and the
\* denied-domains table vary, the others differ from each other.
TableCounts ==
    {[t \in Tables |->
         IF t = "ALLOWED_DOMAINS_TABLE" THEN a
         ELSE IF t = "DENIED_DOMAINS_TABLE" THEN d
         ELSE IF t = "GRAVITY_TABLE" THEN MaxRows + 1
         ELSE IF t = "GROUPS_TABLE" THEN MaxRows + 2
         ELSE IF t = "CLIENTS_TABLE" THEN MaxRows + 3
         ELSE IF t = "ADLISTS_TABLE" THEN MaxRows + 4
         ELSE MaxRows + 5] : a \in 0 .. MaxRows, d \in 0 .. MaxRows}

\* counters->database of zeroed shared memory.
ZeroDatabase ==
    [gravity |-> 0, groups |-> 0, clients |-> 0, lists |-> 0, bulklists |-> 0,
     domains |-> [allowed |-> 0, denied |-> 0]]

\* gravityDB_count(table) on the database db
gravityDB_count(db, table) == db[table]

(***************************************************************************)
(* Initial state: zeroed counters, no records.                             *)
(***************************************************************************)
\* No record is being created.
NoCreation == [pc |-> 0, id |-> 0, target |-> << >>, strpool |-> << >>, events |-> {}]

Init ==
    /\ counters = [queries |-> 0, domains |-> 0, clients |-> 0, dns_cache_size |-> 0, upstreams |-> 0,
                   status |-> [s \in ValidStatus |-> 0], database |-> ZeroDatabase]
    /\ domains = [i \in 0 .. (MaxSlots - 1) |-> ZeroDomain]
    /\ clients = [i \in 0 .. (MaxSlots - 1) |-> ZeroClient]
    /\ dns_cache = [i \in 0 .. (MaxSlots - 1) |-> ZeroCache]
    /\ upstreams = [i \in 0 .. (MaxSlots - 1) |-> ZeroUpstream]
    /\ calls = [i \in 0 .. (MaxSlots - 1) |-> 0]
    /\ strpool = << >>
    /\ overTime = [b \in 0 .. (OVERTIME_SLOTS - 1) |->
                      [total |-> 0, blocked |-> 0, cached |-> 0, forwarded |-> 0]]
    /\ queries = << >>
    /\ focus \in {"status", "status_any", "domain", "client", "cache", "enum", "effects", "reload",
                 "query", "upstream", "alloc_domain",
                 "alloc_client", "alloc_cache", "alloc_upstream", "hash_domain",
                 "hash_client", "access_domain", "access_client",
                 "create_domain", "create_client", "create_cache"}
    /\ shm_lock = "free"
    /\ reload = [pc |-> "idle", cacheID |-> 0, unlocks |-> 0]
    /\ creating = NoCreation
    /\ gravityDB \in (IF focus = "reload" THEN TableCounts ELSE {[t \in Tables |-> 0]})
    /\ events = {}
    /\ startup \in (IF focus = "effects" THEN BOOLEAN ELSE {FALSE})
    /\ last = [op |-> "none"]

(***************************************************************************)
(* The resolver appends a query record (history is chronological: a new    *)
(* query is not older than the one before it). The record starts zeroed;   *)
(* "given" notes whether the query has been given a status yet, "early"    *)
(* whether its status was changed before it was given one.                 *)
(***************************************************************************)
\* The timestamps of the first slot, of the last slot and past the last.
Timestamps == {0, OVERTIME_SLOTS - 1, OVERTIME_SLOTS}

NewQuery(timestamp) ==
    /\ counters.queries < MaxQueries
    /\ counters.queries > 0 => queries[counters.queries - 1].timestamp <= timestamp
    /\ queries' = [i \in 0 .. counters.queries |->
                      IF i < counters.queries THEN queries[i]
                      ELSE [timestamp |-> timestamp, status |-> QUERY_UNKNOWN,
                            given |-> FALSE, early |-> FALSE]]
    /\ counters' = [counters EXCEPT !.queries = @ + 1]
    /\ last' = [op |-> "new_query"]
    /\ UNCHANGED <<creating, upstreams, shm_lock, reload, gravityDB, events, startup, dns_cache, overTime, domains, clients, strpool, calls, focus>>

(***************************************************************************)
(* A call of query_set_status_init (init) or query_set_status (~init) on   *)
(* query q. The resolver initialises a query's status once, before any     *)
(* transition of it.                                                       *)
(***************************************************************************)
QuerySetStatus(q, new_status, init) ==
    /\ q \in DOMAIN queries
    /\ init <=> ~queries[q].given
    /\ LET st == query_set_status(StatusState, q, new_status, init)
       IN  /\ counters' = [counters EXCEPT !.status = st.status]
           /\ overTime' = st.overTime
           /\ queries' = [st.queries EXCEPT ![q].given =
                              @ \/ (init /\ new_status < QUERY_STATUS_MAX)]
           /\ last' = [op |-> "query_set_status", init |-> init,
                       valid |-> new_status < QUERY_STATUS_MAX,
                       changed |-> st # StatusState]
           /\ UNCHANGED <<creating, upstreams, shm_lock, reload, gravityDB, events, startup, dns_cache, domains, clients, strpool, calls, focus>>

(***************************************************************************)
(* Domain operations.                                                      *)
(***************************************************************************)
DomainState == [domains |-> domains, n |-> counters.domains, strpool |-> strpool]

\* The lowest index below n whose slot is not live, or n: the ID a new record
\* is to get.
LowestDead(slots, n) ==
    LET dead == {i \in DOMAIN slots : i < n /\ slots[i].magic # MAGICBYTE}
    IN  IF dead = {} THEN n ELSE CHOOSE i \in dead : \A j \in dead : i <= j

\* A call findDomainID(domainString, count).
FindDomain(domainString, count) ==
    LET r == findDomainID(DomainState, domainString, count)
    IN  /\ r.n <= MaxSlots
        /\ SumTo([i \in DOMAIN r.domains |-> r.domains[i].count],
                 MaxSlots - 1) <= MaxCount
        /\ domains' = r.domains
        /\ strpool' = r.strpool
        /\ counters' = [counters EXCEPT !.domains = r.n]
        /\ last' = [op |-> "find", kind |-> "domain",
                    ret |-> r.ret, created |-> r.created,
                    n |-> counters.domains,
                    expect |-> LowestDead(domains, counters.domains)]
        /\ UNCHANGED <<creating, upstreams, shm_lock, reload, gravityDB, events, startup, dns_cache, overTime, queries, clients, calls, focus>>

\* The garbage collector frees (tombstones) the slot of a live domain: its
\* liveness tag is cleared.
FreeDomain(domainID) ==
    /\ domainID < counters.domains
    /\ getDomain(domains, domainID, TRUE)
    /\ domains' = [domains EXCEPT ![domainID].magic = 0]
    /\ last' = [op |-> "free", kind |-> "domain", ret |-> domainID]
    /\ UNCHANGED <<creating, upstreams, shm_lock, reload, gravityDB, events, startup, dns_cache, counters, strpool, overTime, queries, clients, calls, focus>>

NextDomain ==
    \/ \E name \in DomainNames, count \in BOOLEAN : FindDomain(name, count)
    \/ \E id \in 0 .. (MaxSlots - 1) : FreeDomain(id)

InitDomain == Init /\ focus = "domain"
SpecDomain == InitDomain /\ [][NextDomain]_vars

(***************************************************************************)
(* Client operations.                                                      *)
(***************************************************************************)
ClientState ==
    [clients |-> clients, n |-> counters.clients, strpool |-> strpool,
     overTime |-> overTime, events |-> events, startup |-> startup]

LiveClients == {i \in DOMAIN clients : i < counters.clients /\ getClient(clients, i, TRUE)}
LiveAliasClients == {i \in LiveClients : clients[i].aliasclient}

\* What a client's counters add up to.
ClientWeight(c) == c.count + c.blockedcount + SumTo(c.overTime, OVERTIME_SLOTS - 1)

\* The bound on the counters: none is negative, those of the clients that
\* are no alias-clients stay within MaxCount together, and so do those of
\* each alias-client.
ClientsBounded(cls, ot) ==
    /\ \A i \in DOMAIN cls :
          /\ cls[i].count >= 0 /\ cls[i].blockedcount >= 0
          /\ \A b \in DOMAIN cls[i].overTime : cls[i].overTime[b] >= 0
          /\ cls[i].aliasclient => ClientWeight(cls[i]) <= MaxCount
    /\ \A b \in DOMAIN ot : ot[b].total >= 0 /\ ot[b].total <= MaxCount
    /\ SumTo([i \in DOMAIN cls |-> IF cls[i].aliasclient THEN 0
                                   ELSE ClientWeight(cls[i])], MaxSlots - 1) <= MaxCount

\* What the calls made so far have added, each unit counted once: the
\* counters of the clients that are no alias-clients, and what each
\* alias-client's counters differ by from the sums over its members.
Abs(x) == IF x < 0 THEN 0 - x ELSE x
IsMember(c, a) == c.magic = MAGICBYTE /\ ~c.aliasclient /\ c.aliasclient_id = a
MemberSum(cls, a, f) ==
    SumTo([i \in DOMAIN cls |-> IF IsMember(cls[i], a) THEN f[i] ELSE 0], MaxSlots - 1)
AliasExcess(cls, a) ==
    Abs(cls[a].count - MemberSum(cls, a, [i \in DOMAIN cls |-> cls[i].count]))
    + Abs(cls[a].blockedcount
          - MemberSum(cls, a, [i \in DOMAIN cls |-> cls[i].blockedcount]))
    + SumTo([b \in 0 .. (OVERTIME_SLOTS - 1) |->
                Abs(cls[a].overTime[b]
                    - MemberSum(cls, a, [i \in DOMAIN cls |-> cls[i].overTime[b]]))],
            OVERTIME_SLOTS - 1)
UnitsApplied(cls) ==
    SumTo([i \in DOMAIN cls |->
              IF cls[i].magic # MAGICBYTE THEN 0
              ELSE IF cls[i].aliasclient THEN AliasExcess(cls, i)
              ELSE ClientWeight(cls[i])], MaxSlots - 1)

\* A call findClientID(clientIP, count, aliasclient); link is the live
\* alias-client the rule engine assigns to a new client, or -1. calls[i]
\* counts the calls that found or created the client of slot i, as long as
\* all of them asked for counting and none was for an alias-client, and is
\* -1 otherwise.
FindClient(clientIP, count, aliasclient, link) ==
    LET r == findClientID(ClientState, clientIP, count, aliasclient, link)
    IN  /\ link \in LiveAliasClients \cup {-1}
        /\ ~r.created => link = -1
        /\ r.n <= MaxSlots
        /\ ClientsBounded(r.clients, r.overTime)
        /\ clients' = r.clients
        /\ overTime' = r.overTime
        /\ strpool' = r.strpool
        /\ counters' = [counters EXCEPT !.clients = r.n]
        /\ calls' = IF r.ret < 0 THEN calls
                    ELSE [calls EXCEPT ![r.ret] =
                             IF ~count \/ aliasclient THEN -1
                             ELSE IF r.created THEN 1
                             ELSE IF @ < 0 THEN -1 ELSE @ + 1]
        /\ last' = [op |-> "find", kind |-> "client", effects |-> r.effects,
                    ret |-> r.ret, created |-> r.created,
                    n |-> counters.clients,
                    expect |-> LowestDead(clients, counters.clients)]
        /\ events' = r.events
        /\ UNCHANGED <<creating, upstreams, shm_lock, reload, gravityDB, startup, dns_cache, queries, domains, focus>>

\* The garbage collector frees (tombstones) the slot of a live client that no
\* live client is linked to: its liveness tag is cleared.
FreeClient(clientID) ==
    /\ clientID \in LiveClients
    /\ \A i \in LiveClients : clients[i].aliasclient_id # clientID
    /\ clients' = [clients EXCEPT ![clientID].magic = 0]
    /\ last' = [op |-> "free", kind |-> "client", ret |-> clientID]
    /\ UNCHANGED <<creating, upstreams, shm_lock, reload, gravityDB, events, startup, dns_cache, counters, strpool, overTime, queries, domains, calls, focus>>

\* A call change_clientcount(client, total, blocked, overTimeIdx, overTimeMod)
\* on the live client of slot clientID.
ChangeClientCount(clientID, total, blocked, overTimeIdx, overTimeMod) ==
    LET r == change_clientcount(clients, overTime, clientID, total, blocked,
                                overTimeIdx, overTimeMod)
    IN  /\ clientID < counters.clients
        /\ getClient(clients, clientID, TRUE)
        /\ clients[clientID].aliasclient_id > -1 =>
               clients[clientID].aliasclient_id \in LiveAliasClients
        /\ ClientsBounded(r.clients, r.overTime)
        /\ UnitsApplied(r.clients) <= MaxCount
        /\ clients' = r.clients
        /\ overTime' = r.overTime
        /\ calls' = [calls EXCEPT ![clientID] = -1]
        /\ last' = [op |-> "change_clientcount",
                    alias |-> clients[clientID].aliasclient,
                    linked |-> clients[clientID].aliasclient_id > -1,
                    inRange |-> overTimeIdx > -1 /\ overTimeIdx < OVERTIME_SLOTS,
                    changed |-> r.clients # clients \/ r.overTime # overTime]
        /\ UNCHANGED <<creating, upstreams, shm_lock, reload, gravityDB, events, startup, dns_cache, counters, strpool, queries, domains, focus>>

NextClient ==
    \/ \E ip \in ClientIPs, count \in BOOLEAN, link \in -1 .. (MaxSlots - 1) :
          FindClient(ip, count, FALSE, link)
    \/ \E name \in AliasNames, count \in BOOLEAN : FindClient(name, count, TRUE, -1)
    \/ \E id \in 0 .. (MaxSlots - 1) : FreeClient(id)

InitClient == Init /\ focus = "client"
SpecClient == InitClient /\ [][NextClient]_vars

\* A store of an alias-client "a", the client "10" linked to it, and the client
\* "11", linked to it or to none, with all counters at zero: every query that
\* was counted for them has been taken out again.
InitCounters ==
    /\ counters = [queries |-> 0, domains |-> 0, clients |-> 3, dns_cache_size |-> 0, upstreams |-> 0,
                   status |-> [s \in ValidStatus |-> 0], database |-> ZeroDatabase]
    /\ dns_cache = [i \in 0 .. (MaxSlots - 1) |-> ZeroCache]
    /\ upstreams = [i \in 0 .. (MaxSlots - 1) |-> ZeroUpstream]
    /\ overTime = [b \in 0 .. (OVERTIME_SLOTS - 1) |->
                      [total |-> 0, blocked |-> 0, cached |-> 0, forwarded |-> 0]]
    /\ queries = << >>
    /\ domains = [i \in 0 .. (MaxSlots - 1) |-> ZeroDomain]
    /\ strpool = << <<97>>, <<49, 48>>, <<49, 49>> >>
    /\ \E l1 \in {0}, l2 \in {-1, 0} :
          clients = [i \in 0 .. (MaxSlots - 1) |->
              IF i > 2 THEN ZeroClient
              ELSE [ZeroClient EXCEPT !.magic = MAGICBYTE, !.ippos = i + 1, !.id = i,
                                      !.aliasclient = (i = 0),
                                      !.aliasclient_id = IF i = 1 THEN l1
                                                         ELSE IF i = 2 THEN l2 ELSE -1]]
    /\ calls = [i \in 0 .. (MaxSlots - 1) |-> -1]
    /\ focus = "counters"
    /\ shm_lock = "free"
    /\ reload = [pc |-> "idle", cacheID |-> 0, unlocks |-> 0]
    /\ creating = NoCreation
    /\ gravityDB = [t \in Tables |-> 0]
    /\ events = {}
    /\ startup = FALSE
    /\ last = [op |-> "none"]

\* The deltas <<total, blocked, overTimeMod>> and the overTime indices the
\* model passes (one index below and one above the valid ones).
Deltas ==
    {<<1, 0, 0>>, <<0, 1, 0>>, <<0, 0, 1>>, <<1, 0, 1>>, <<-1, 0, -1>>, <<0, -1, 0>>}
OverTimeIdx == -1 .. OVERTIME_SLOTS

NextCounters ==
    \E id \in 0 .. (MaxSlots - 1), d \in Deltas, idx \in OverTimeIdx :
          ChangeClientCount(id, d[1], d[2], idx, d[3])

SpecCounters == InitCounters /\ [][NextCounters]_vars

(***************************************************************************)
(* DNS cache operations.                                                   *)
(***************************************************************************)
CacheState == [dns_cache |-> dns_cache, n |-> counters.dns_cache_size]

\* A call findCacheID(domainID, clientID, query_type, create_new).
FindCache(domainID, clientID, query_type, create_new) ==
    LET r == findCacheID(CacheState, domainID, clientID, query_type, create_new)
    IN  /\ r.n <= MaxSlots
        /\ dns_cache' = r.dns_cache
        /\ counters' = [counters EXCEPT !.dns_cache_size = r.n]
        /\ last' = [op |-> "find", kind |-> "cache",
                    ret |-> r.ret, created |-> r.created,
                    n |-> counters.dns_cache_size,
                    expect |-> LowestDead(dns_cache, counters.dns_cache_size)]
        /\ UNCHANGED <<creating, upstreams, shm_lock, reload, gravityDB, events, startup, overTime, queries, domains, clients, strpool, calls, focus>>

\* The garbage collector frees (tombstones) the slot of a live cache entry:
\* its liveness tag is cleared.
FreeCache(cacheID) ==
    /\ cacheID < counters.dns_cache_size
    /\ getDNSCache(dns_cache, cacheID, TRUE)
    /\ dns_cache' = [dns_cache EXCEPT ![cacheID].magic = 0]
    /\ last' = [op |-> "free", kind |-> "cache", ret |-> cacheID]
    /\ UNCHANGED <<creating, upstreams, shm_lock, reload, gravityDB, events, startup, counters, overTime, queries, domains, clients, strpool, calls, focus>>

NextCache ==
    \/ \E k \in CacheKeys, create_new \in BOOLEAN : FindCache(k[1], k[2], k[3], create_new)
    \/ \E id \in 0 .. (MaxSlots - 1) : FreeCache(id)

InitCache == Init /\ focus = "cache"
SpecCache == InitCache /\ [][NextCache]_vars

(***************************************************************************)
(* The record arena: one of the three kinds of records that are freed and  *)
(* reused is worked on.                                                     *)
(***************************************************************************)
NextArena ==
    \/ focus = "domain" /\ NextDomain
    \/ focus = "client" /\ NextClient
    \/ focus = "cache" /\ NextCache

InitArena == Init /\ focus \in {"domain", "client", "cache"}
SpecArena == InitArena /\ [][NextArena]_vars

NextStatus ==
    \/ \E timestamp \in Timestamps : NewQuery(timestamp)
    \/ \E q \in 0 .. (MaxQueries - 1), s \in StatusArg, init \in BOOLEAN :
          QuerySetStatus(q, s, init)

InitStatus == Init /\ focus = "status"
SpecStatus == InitStatus /\ [][NextStatus]_vars

(***************************************************************************)
(* Privacy projection: the accessors that turn a query's domain ID back    *)
(* into a string.                                                          *)
(***************************************************************************)
\* The privacy level from which on domains are hidden, and the string
\* ("hidden") returned in their place.
PRIVACY_HIDE_DOMAINS == 1
HIDDEN_DOMAIN == <<104, 105, 100, 100, 101, 110>>

\* A query pointer that is NULL.
NULL == [null |-> TRUE]

\* The queries the model hands to the accessors: their domain IDs run from
\* -1 (none) to one past the slots, their privacy levels from none to above
\* the threshold.
QueryArgs ==
    {[domainID |-> d, CNAME_domainID |-> c, privacylevel |-> p] :
        d \in -1 .. MaxSlots, c \in -1 .. MaxSlots, p \in 0 .. (PRIVACY_HIDE_DOMAINS + 1)}

\* Mutant: the domain record is looked up before the privacy level is tested.
getDomainString_lookupfirst(query, doms, pool) ==
    IF query = NULL \/ query.domainID < 0 THEN << >>
    ELSE IF ~getDomain(doms, query.domainID, TRUE) THEN << >>
    ELSE IF query.privacylevel < PRIVACY_HIDE_DOMAINS
         THEN getstr(pool, doms[query.domainID].domainpos)
    ELSE HIDDEN_DOMAIN

\* getDomainString(query) on the domain slots doms and the string pool.
getDomainString(query, doms, pool) ==
    IF query = NULL \/ query.domainID < 0 THEN << >>
    ELSE IF query.privacylevel < PRIVACY_HIDE_DOMAINS
         THEN IF ~getDomain(doms, query.domainID, TRUE) THEN << >>
              ELSE getstr(pool, doms[query.domainID].domainpos)
    ELSE HIDDEN_DOMAIN

\* getCNAMEDomainString(query)
getCNAMEDomainString(query, doms, pool) ==
    IF query = NULL \/ query.CNAME_domainID < 0 THEN << >>
    ELSE IF query.privacylevel < PRIVACY_HIDE_DOMAINS
         THEN IF ~getDomain(doms, query.CNAME_domainID, TRUE) THEN << >>
              ELSE getstr(pool, doms[query.CNAME_domainID].domainpos)
    ELSE HIDDEN_DOMAIN

\* A call getDomainString(query) or getCNAMEDomainString(query): nothing of
\* the store changes.
GetDomainString(query, cname) ==
    /\ last' = [op |-> "getDomainString", cname |-> cname,
                hidden |-> query.privacylevel >= PRIVACY_HIDE_DOMAINS,
                found |-> getDomain(domains,
                                    IF cname THEN query.CNAME_domainID
                                    ELSE query.domainID, TRUE),
                ret |-> IF cname THEN getCNAMEDomainString(query, domains, strpool)
                        ELSE getDomainString(query, domains, strpool)]
    /\ UNCHANGED <<creating, upstreams, shm_lock, reload, gravityDB, events, startup, counters, overTime, queries, domains, clients, dns_cache, strpool,
                   calls, focus>>

NextPrivacy ==
    \/ \E name \in DomainNames : FindDomain(name, FALSE)
    \/ \E id \in 0 .. (MaxSlots - 1) : FreeDomain(id)
    \/ \E query \in QueryArgs, cname \in BOOLEAN :
          /\ query.domainID = query.CNAME_domainID
          /\ GetDomainString(query, cname)

InitPrivacy == Init /\ focus = "domain"
SpecPrivacy == InitPrivacy /\ [][NextPrivacy]_vars

(***************************************************************************)
(* Enum <-> string mappings. The values of an enum are numbered in the     *)
(* order of its declaration; strings are sequences of character codes.     *)
(***************************************************************************)
\* tolower() on a character code, and on every character of a string.
tolower(c) == IF c >= 65 /\ c <= 90 THEN c + 32 ELSE c
toupper(c) == IF c >= 97 /\ c <= 122 THEN c - 32 ELSE c
LowerStr(s) == [i \in DOMAIN s |-> tolower(s[i])]

\* Mutant: a comparison that does not ignore letter case.
strcasecmp_exact(a, b) == IF a = b THEN 0 ELSE 1

\* strcasecmp(a, b): 0 when the strings are equal ignoring letter case (the
\* sign of a non-zero result is not modelled, the code tests for 0 only).
strcasecmp(a, b) == IF LowerStr(a) = LowerStr(b) THEN 0 ELSE 1

\* enum blocking_mode
MODE_IP == 0
MODE_NX == 1
MODE_NULL == 2
MODE_IP_NODATA_AAAA == 3
MODE_NODATA == 4
MODE_MAX == 5

\* get_blocking_mode_str(mode)
get_blocking_mode_str(mode) ==
    IF mode = MODE_IP THEN <<73, 80>>    \* "IP"
    ELSE IF mode = MODE_NX THEN <<78, 88>>    \* "NX"
    ELSE IF mode = MODE_NULL THEN <<78, 85, 76, 76>>    \* "NULL"
    ELSE IF mode = MODE_IP_NODATA_AAAA THEN <<73, 80, 95, 78, 79, 68, 65, 84, 65, 95, 65, 65, 65, 65>>    \* "IP_NODATA_AAAA"
    ELSE IF mode = MODE_NODATA THEN <<78, 79, 68, 65, 84, 65>>    \* "NODATA"
    ELSE <<78, 47, 65>>    \* "N/A"

\* get_blocking_mode_val(blocking_mode)
get_blocking_mode_val(blocking_mode) ==
    IF strcasecmp(blocking_mode, <<73, 80>>) = 0 THEN MODE_IP    \* "IP"
    ELSE IF strcasecmp(blocking_mode, <<78, 88>>) = 0 THEN MODE_NX    \* "NX"
    ELSE IF strcasecmp(blocking_mode, <<78, 85, 76, 76>>) = 0 THEN MODE_NULL    \* "NULL"
    ELSE IF strcasecmp(blocking_mode, <<73, 80, 95, 78, 79, 68, 65, 84, 65, 95, 65, 65, 65, 65>>) = 0 THEN MODE_IP_NODATA_AAAA    \* "IP_NODATA_AAAA"
    ELSE IF strcasecmp(blocking_mode, <<78, 79, 68, 65, 84, 65>>) = 0 THEN MODE_NODATA    \* "NODATA"
    ELSE -1

\* enum refresh_hostnames
REFRESH_ALL == 0
REFRESH_IPV4_ONLY == 1
REFRESH_UNKNOWN == 2
REFRESH_NONE == 3

\* get_refresh_hostnames_str(refresh)
get_refresh_hostnames_str(refresh) ==
    IF refresh = REFRESH_ALL THEN <<65, 76, 76>>    \* "ALL"
    ELSE IF refresh = REFRESH_IPV4_ONLY THEN <<73, 80, 86, 52, 95, 79, 78, 76, 89>>    \* "IPV4_ONLY"
    ELSE IF refresh = REFRESH_UNKNOWN THEN <<85, 78, 75, 78, 79, 87, 78>>    \* "UNKNOWN"
    ELSE IF refresh = REFRESH_NONE THEN <<78, 79, 78, 69>>    \* "NONE"
    ELSE <<78, 47, 65>>    \* "N/A"

\* get_refresh_hostnames_val(refresh_hostnames)
get_refresh_hostnames_val(refresh_hostnames) ==
    IF strcasecmp(refresh_hostnames, <<65, 76, 76>>) = 0 THEN REFRESH_ALL    \* "ALL"
    ELSE IF strcasecmp(refresh_hostnames, <<73, 80, 86, 52, 95, 79, 78, 76, 89>>) = 0 THEN REFRESH_IPV4_ONLY    \* "IPV4_ONLY"
    ELSE IF strcasecmp(refresh_hostnames, <<85, 78, 75, 78, 79, 87, 78>>) = 0 THEN REFRESH_UNKNOWN    \* "UNKNOWN"
    ELSE IF strcasecmp(refresh_hostnames, <<78, 79, 78, 69>>) = 0 THEN REFRESH_NONE    \* "NONE"
    ELSE -1

\* enum ptr_type
PTR_PIHOLE == 0
PTR_HOSTNAME == 1
PTR_HOSTNAMEFQDN == 2
PTR_NONE == 3

\* get_ptr_type_str(piholePTR)
get_ptr_type_str(piholePTR) ==
    IF piholePTR = PTR_PIHOLE THEN <<80, 73, 46, 72, 79, 76, 69>>    \* "PI.HOLE"
    ELSE IF piholePTR = PTR_HOSTNAME THEN <<72, 79, 83, 84, 78, 65, 77, 69>>    \* "HOSTNAME"
    ELSE IF piholePTR = PTR_HOSTNAMEFQDN THEN <<72, 79, 83, 84, 78, 65, 77, 69, 70, 81, 68, 78>>    \* "HOSTNAMEFQDN"
    ELSE IF piholePTR = PTR_NONE THEN <<78, 79, 78, 69>>    \* "NONE"
    ELSE NULL

\* get_ptr_type_val(piholePTR)
get_ptr_type_val(piholePTR) ==
    IF strcasecmp(piholePTR, <<112, 105, 46, 104, 111, 108, 101>>) = 0 THEN PTR_PIHOLE    \* "pi.hole"
    ELSE IF strcasecmp(piholePTR, <<104, 111, 115, 116, 110, 97, 109, 101>>) = 0 THEN PTR_HOSTNAME    \* "hostname"
    ELSE IF strcasecmp(piholePTR, <<104, 111, 115, 116, 110, 97, 109, 101, 102, 113, 100, 110>>) = 0 THEN PTR_HOSTNAMEFQDN    \* "hostnamefqdn"
    ELSE IF \/ strcasecmp(piholePTR, <<110, 111, 110, 101>>) = 0    \* "none"
            \/ strcasecmp(piholePTR, <<102, 97, 108, 115, 101>>) = 0    \* "false"
         THEN PTR_NONE
    ELSE -1

\* enum busy_reply
BUSY_BLOCK == 0
BUSY_ALLOW == 1
BUSY_REFUSE == 2
BUSY_DROP == 3

\* get_busy_reply_str(replyWhenBusy)
get_busy_reply_str(replyWhenBusy) ==
    IF replyWhenBusy = BUSY_BLOCK THEN <<66, 76, 79, 67, 75>>    \* "BLOCK"
    ELSE IF replyWhenBusy = BUSY_ALLOW THEN <<65, 76, 76, 79, 87>>    \* "ALLOW"
    ELSE IF replyWhenBusy = BUSY_REFUSE THEN <<82, 69, 70, 85, 83, 69>>    \* "REFUSE"
    ELSE IF replyWhenBusy = BUSY_DROP THEN <<68, 82, 79, 80>>    \* "DROP"
    ELSE NULL

\* get_busy_reply_val(replyWhenBusy)
get_busy_reply_val(replyWhenBusy) ==
    IF strcasecmp(replyWhenBusy, <<66, 76, 79, 67, 75>>) = 0 THEN BUSY_BLOCK    \* "BLOCK"
    ELSE IF strcasecmp(replyWhenBusy, <<65, 76, 76, 79, 87>>) = 0 THEN BUSY_ALLOW    \* "ALLOW"
    ELSE IF strcasecmp(replyWhenBusy, <<82, 69, 70, 85, 83, 69>>) = 0 THEN BUSY_REFUSE    \* "REFUSE"
    ELSE IF strcasecmp(replyWhenBusy, <<68, 82, 79, 80>>) = 0 THEN BUSY_DROP    \* "DROP"
    ELSE -1

\* enum listeningMode
LISTEN_LOCAL == 0
LISTEN_ALL == 1
LISTEN_SINGLE == 2
LISTEN_BIND == 3
LISTEN_NONE == 4

\* get_listeningMode_str(listeningMode)
get_listeningMode_str(listeningMode) ==
    IF listeningMode = LISTEN_LOCAL THEN <<76, 79, 67, 65, 76>>    \* "LOCAL"
    ELSE IF listeningMode = LISTEN_ALL THEN <<65, 76, 76>>    \* "ALL"
    ELSE IF listeningMode = LISTEN_SINGLE THEN <<83, 73, 78, 71, 76, 69>>    \* "SINGLE"
    ELSE IF listeningMode = LISTEN_BIND THEN <<66, 73, 78, 68>>    \* "BIND"
    ELSE IF listeningMode = LISTEN_NONE THEN <<78, 79, 78, 69>>    \* "NONE"
    ELSE NULL

\* get_listeningMode_val(listeningMode)
get_listeningMode_val(listeningMode) ==
    IF strcasecmp(listeningMode, <<76, 79, 67, 65, 76>>) = 0 THEN LISTEN_LOCAL    \* "LOCAL"
    ELSE IF strcasecmp(listeningMode, <<65, 76, 76>>) = 0 THEN LISTEN_ALL    \* "ALL"
    ELSE IF strcasecmp(listeningMode, <<83, 73, 78, 71, 76, 69>>) = 0 THEN LISTEN_SINGLE    \* "SINGLE"
    ELSE IF strcasecmp(listeningMode, <<66, 73, 78, 68>>) = 0 THEN LISTEN_BIND    \* "BIND"
    ELSE IF strcasecmp(listeningMode, <<78, 79, 78, 69>>) = 0 THEN LISTEN_NONE    \* "NONE"
    ELSE -1

\* enum temp_unit
TEMP_UNIT_C == 0
TEMP_UNIT_F == 1
TEMP_UNIT_K == 2

\* get_temp_unit_str(temp_unit)
get_temp_unit_str(temp_unit) ==
    IF temp_unit = TEMP_UNIT_C THEN <<67>>    \* "C"
    ELSE IF temp_unit = TEMP_UNIT_F THEN <<70>>    \* "F"
    ELSE IF temp_unit = TEMP_UNIT_K THEN <<75>>    \* "K"
    ELSE NULL

\* get_temp_unit_val(temp_unit)
get_temp_unit_val(temp_unit) ==
    IF strcasecmp(temp_unit, <<67>>) = 0 THEN TEMP_UNIT_C    \* "C"
    ELSE IF strcasecmp(temp_unit, <<70>>) = 0 THEN TEMP_UNIT_F    \* "F"
    ELSE IF strcasecmp(temp_unit, <<75>>) = 0 THEN TEMP_UNIT_K    \* "K"
    ELSE -1

\* The enums that have a to-string and a parse function, their valid values,
\* and the two functions by kind.
EnumKinds ==
    {"blocking_mode", "refresh_hostnames", "ptr_type", "busy_reply", "listeningMode", "temp_unit"}
ValidEnum(kind) ==
    IF kind = "blocking_mode" THEN MODE_IP .. MODE_NODATA
    ELSE IF kind = "refresh_hostnames" THEN REFRESH_ALL .. REFRESH_NONE
    ELSE IF kind = "ptr_type" THEN PTR_PIHOLE .. PTR_NONE
    ELSE IF kind = "busy_reply" THEN BUSY_BLOCK .. BUSY_DROP
    ELSE IF kind = "listeningMode" THEN LISTEN_LOCAL .. LISTEN_NONE
    ELSE TEMP_UNIT_C .. TEMP_UNIT_K
enum_str(kind, v) ==
    IF kind = "blocking_mode" THEN get_blocking_mode_str(v)
    ELSE IF kind = "refresh_hostnames" THEN get_refresh_hostnames_str(v)
    ELSE IF kind = "ptr_type" THEN get_ptr_type_str(v)
    ELSE IF kind = "busy_reply" THEN get_busy_reply_str(v)
    ELSE IF kind = "listeningMode" THEN get_listeningMode_str(v)
    ELSE get_temp_unit_str(v)
enum_val(kind, s) ==
    IF kind = "blocking_mode" THEN get_blocking_mode_val(s)
    ELSE IF kind = "refresh_hostnames" THEN get_refresh_hostnames_val(s)
    ELSE IF kind = "ptr_type" THEN get_ptr_type_val(s)
    ELSE IF kind = "busy_reply" THEN get_busy_reply_val(s)
    ELSE IF kind = "listeningMode" THEN get_listeningMode_val(s)
    ELSE get_temp_unit_val(s)

\* Tokens that are no name of a value of any of the enums.
Unrecognised ==
    {<<110, 111, 116, 45, 97, 45, 114, 101, 97, 108, 45, 118, 97, 108, 117, 101>>,    \* "not-a-real-value"
     << >>,    \* ""
     <<78, 47, 65>>,    \* "N/A"
     <<73, 80, 95, 78, 79, 68, 65, 84, 65>>,    \* "IP_NODATA"
     <<78, 79, 78, 69, 32>>}    \* "NONE "

\* MaxFlips: how many letters of a token change their case.
MaxFlips == 2

\* to_string(v) of a valid value: its result becomes the token at hand.
EnumToString(kind, v) ==
    /\ last' = [op |-> "to_string", src |-> "to_string", kind |-> kind, v |-> v,
                token |-> enum_str(kind, v), flips |-> 0, val |-> -1]
    /\ UNCHANGED <<creating, upstreams, shm_lock, reload, gravityDB, events, startup, counters, overTime, queries, domains, clients, dns_cache, strpool,
                   calls, focus>>

\* The token at hand is one that names no value.
EnumToken(t) ==
    /\ last' = [op |-> "token", src |-> "token", kind |-> "none", v |-> -1,
                token |-> t, flips |-> 0, val |-> -1]
    /\ UNCHANGED <<creating, upstreams, shm_lock, reload, gravityDB, events, startup, counters, overTime, queries, domains, clients, dns_cache, strpool,
                   calls, focus>>

\* The positions of the token at hand.
TokenIndices == IF last.op = "none" THEN {} ELSE DOMAIN last.token

\* The token at hand is written with letter i in the other case.
EnumFlipCase(i) ==
    /\ last.op \in {"to_string", "token", "flip"}
    /\ last.flips < MaxFlips
    /\ i \in DOMAIN last.token
    /\ tolower(last.token[i]) # toupper(last.token[i])
    /\ last' = [last EXCEPT !.op = "flip", !.flips = @ + 1,
                            !.token = [@ EXCEPT ![i] = IF tolower(@) = @ THEN toupper(@)
                                                     ELSE tolower(@)]]
    /\ UNCHANGED <<creating, upstreams, shm_lock, reload, gravityDB, events, startup, counters, overTime, queries, domains, clients, dns_cache, strpool,
                   calls, focus>>

\* parse(token) with the parse function of kind.
EnumParse(kind) ==
    /\ last.op \in {"to_string", "token", "flip"}
    /\ last.src = "to_string" => kind = last.kind
    /\ last' = [last EXCEPT !.op = "parse", !.kind = kind,
                            !.val = enum_val(kind, last.token)]
    /\ UNCHANGED <<creating, upstreams, shm_lock, reload, gravityDB, events, startup, counters, overTime, queries, domains, clients, dns_cache, strpool,
                   calls, focus>>

NextEnum ==
    \/ \E kind \in EnumKinds : \E v \in ValidEnum(kind) : EnumToString(kind, v)
    \/ \E t \in Unrecognised : EnumToken(t)
    \/ \E i \in TokenIndices : EnumFlipCase(i)
    \/ \E kind \in EnumKinds : EnumParse(kind)

InitEnum == Init /\ focus = "enum"
SpecEnum == InitEnum /\ [][NextEnum]_vars

(***************************************************************************)
(* FTL_reload_all_domainlists, run by the database thread statement by     *)
(* statement, next to other contexts that take the shared-memory lock.     *)
(***************************************************************************)
\* The statements of FTL_reload_all_domainlists in their order.
ReloadOrder ==
    <<"lock_shm", "gravityDB_reopen", "count_gravity", "count_groups",
      "count_clients", "count_lists", "count_bulklists", "count_allowed",
      "count_denied", "read_regex_from_database", "check_inaccessible_adlists",
      "FTL_reset_per_client_domain_data", "unlock_shm">>

\* The statement after statement pc in the order given; "idle" after the last.
SuccessorIn(order, pc) ==
    LET i == CHOOSE j \in DOMAIN order : order[j] = pc
    IN  IF i = Len(order) THEN "idle" ELSE order[i + 1]

\* Mutant: the lock is released before the cache is reset.
reload_successor_early_unlock(pc) ==
    SuccessorIn(<<"lock_shm", "gravityDB_reopen", "count_gravity", "count_groups",
                  "count_clients", "count_lists", "count_bulklists", "count_allowed",
                  "count_denied", "read_regex_from_database",
                  "check_inaccessible_adlists", "unlock_shm",
                  "FTL_reset_per_client_domain_data">>, pc)

\* The statement FTL_reload_all_domainlists executes after statement pc.
reload_successor(pc) == SuccessorIn(ReloadOrder, pc)

\* The assignments to counters->database: its value after statement pc.
database_count(database, db, pc) ==
    IF pc = "count_gravity"
    THEN [database EXCEPT !.gravity = gravityDB_count(db, "GRAVITY_TABLE")]
    ELSE IF pc = "count_groups"
    THEN [database EXCEPT !.groups = gravityDB_count(db, "GROUPS_TABLE")]
    ELSE IF pc = "count_clients"
    THEN [database EXCEPT !.clients = gravityDB_count(db, "CLIENTS_TABLE")]
    ELSE IF pc = "count_lists"
    THEN [database EXCEPT !.lists = gravityDB_count(db, "ADLISTS_TABLE")]
    ELSE IF pc = "count_bulklists"
    THEN [database EXCEPT !.bulklists = gravityDB_count(db, "BULKLISTS_TABLE")]
    ELSE IF pc = "count_allowed"
    THEN [database EXCEPT !.domains.allowed = gravityDB_count(db, "DENIED_DOMAINS_TABLE")]
    ELSE IF pc = "count_denied"
    THEN [database EXCEPT !.domains.denied = gravityDB_count(db, "ALLOWED_DOMAINS_TABLE")]
    ELSE database

\* One pass of the loop of FTL_reset_per_client_domain_data: the cache slots
\* after the entry of slot cacheID has been reset.
reset_cache_entry(cache, cacheID) ==
    IF ~getDNSCache(cache, cacheID, TRUE) THEN cache
    ELSE [cache EXCEPT ![cacheID].blocking_status = UNKNOWN_BLOCKED,
                       ![cacheID].list_id = -1]

\* The database thread calls FTL_reload_all_domainlists.
ReloadCall ==
    /\ reload.pc = "idle"
    /\ reload' = [pc |-> ReloadOrder[1], cacheID |-> 0, unlocks |-> 0]
    /\ last' = [op |-> "reload", stmt |-> "call"]
    /\ UNCHANGED <<creating, upstreams, counters, overTime, queries, domains, clients, dns_cache, strpool,
                   calls, events, startup, shm_lock, gravityDB, focus>>

\* FTL_reload_all_domainlists executes the statement it is at; the loop of
\* FTL_reset_per_client_domain_data takes one step for each cache slot.
ReloadStep ==
    /\ reload.pc # "idle"
    /\ reload.pc = "lock_shm" => shm_lock = "free"
    /\ shm_lock' = IF reload.pc = "lock_shm" THEN "reload"
                   ELSE IF reload.pc = "unlock_shm" THEN "free"
                   ELSE shm_lock
    /\ counters' = [counters EXCEPT !.database = database_count(@, gravityDB, reload.pc)]
    /\ IF reload.pc = "FTL_reset_per_client_domain_data"
          /\ reload.cacheID < counters.dns_cache_size
       THEN /\ dns_cache' = reset_cache_entry(dns_cache, reload.cacheID)
            /\ reload' = [reload EXCEPT !.cacheID = @ + 1]
       ELSE /\ dns_cache' = dns_cache
            /\ reload' = [pc |-> reload_successor(reload.pc), cacheID |-> 0,
                          unlocks |-> reload.unlocks
                                      + IF reload.pc = "unlock_shm" THEN 1 ELSE 0]
    /\ last' = [op |-> "reload", stmt |-> reload.pc]
    /\ UNCHANGED <<creating, upstreams, overTime, queries, domains, clients, strpool, calls, events, startup,
                   gravityDB, focus>>

\* The live cache entries the reset loop has passed and those it has not,
\* while it runs.
ResetDone ==
    {i \in DOMAIN dns_cache : i < reload.cacheID /\ getDNSCache(dns_cache, i, TRUE)}
ResetPending ==
    {i \in DOMAIN dns_cache : /\ i >= reload.cacheID /\ i < counters.dns_cache_size
                              /\ getDNSCache(dns_cache, i, TRUE)}

\* Another context takes the lock, looks at the cache and releases the lock;
\* it notes whether the reload was under way and whether only a part of the
\* entries had been reset.
Observe ==
    /\ shm_lock = "free"
    /\ last' = [op |-> "observe",
                underway |-> reload.pc \notin {"idle", "lock_shm"},
                partial |-> /\ reload.pc = "FTL_reset_per_client_domain_data"
                            /\ ResetDone # {} /\ ResetPending # {}]
    /\ UNCHANGED <<creating, upstreams, counters, overTime, queries, domains, clients, dns_cache, strpool,
                   calls, events, startup, shm_lock, reload, gravityDB, focus>>

\* The resolver, holding the lock, stores the outcome of the blocking check
\* in a live cache entry.
SetCacheStatus(cacheID) ==
    /\ cacheID < counters.dns_cache_size
    /\ getDNSCache(dns_cache, cacheID, TRUE)
    /\ dns_cache[cacheID].blocking_status = UNKNOWN_BLOCKED
    /\ dns_cache' = [dns_cache EXCEPT ![cacheID].blocking_status = UNKNOWN_BLOCKED + 1,
                                      ![cacheID].list_id = 0]
    /\ last' = [op |-> "set_cache_status", ret |-> cacheID]
    /\ UNCHANGED <<creating, upstreams, counters, overTime, queries, domains, clients, strpool, calls, events,
                   startup, shm_lock, reload, gravityDB, focus>>

NextReload ==
    \/ ReloadCall
    \/ ReloadStep
    \/ Observe
    \/ \E k \in CacheKeys : shm_lock = "free" /\ FindCache(k[1], k[2], k[3], TRUE)
    \/ \E id \in 0 .. (MaxSlots - 1) : shm_lock = "free" /\ SetCacheStatus(id)
    \/ \E id \in 0 .. (MaxSlots - 1) : shm_lock = "free" /\ FreeCache(id)

InitReload == Init /\ focus = "reload"
SpecReload == InitReload /\ [][NextReload]_vars

(***************************************************************************)
(* Client creation during and after startup.                               *)
(***************************************************************************)
\* History reading is done: the startup flag is cleared.
StartupDone ==
    /\ startup
    /\ startup' = FALSE
    /\ last' = [op |-> "startup_done"]
    /\ UNCHANGED <<creating, upstreams, counters, overTime, queries, domains, clients, dns_cache, strpool,
                   calls, events, shm_lock, reload, gravityDB, focus>>

NextEffects ==
    \/ \E ip \in ClientIPs, count \in BOOLEAN : FindClient(ip, count, FALSE, -1)
    \/ \E name \in AliasNames, count \in BOOLEAN : FindClient(name, count, TRUE, -1)
    \/ \E id \in 0 .. (MaxSlots - 1) : FreeClient(id)
    \/ StartupDone

InitEffects == Init /\ focus = "effects"
SpecEffects == InitEffects /\ [][NextEffects]_vars

(***************************************************************************)
(* findQueryID: the query that carries a correlation ID.                   *)
(***************************************************************************)
\* MAXITER: how many queries findQueryID looks back at most.
MAXITER == 2

\* The most query records the store holds when findQueryID is exercised.
MaxHistory == MAXITER + 2

\* The correlation IDs queries carry, and those looked up.
QueryIDs == {11, 12}
LookupIDs == QueryIDs \cup {13}

MAX(a, b) == IF a > b THEN a ELSE b

\* getQuery(queryID, checkMagic) # NULL
getQuery(qs, queryID, checkMagic) ==
    /\ queryID \in DOMAIN qs
    /\ checkMagic => qs[queryID].magic = MAGICBYTE

\* Mutant: the loop walks back to the oldest query.
findQueryID_until_oldest(n) == 0

\* The index the loop of findQueryID stops at.
findQueryID_until(n) == MAX(0, n - MAXITER)

\* The index the loop of findQueryID starts at.
findQueryID_start(n) == MAX(0, n - 1)

\* The loop of findQueryID from index i down to index until; probes counts
\* the calls of getQuery made so far.
RECURSIVE findQueryIDFrom(_, _, _, _, _)
findQueryIDFrom(qs, id, i, until, probes) ==
    IF i < until THEN [ret |-> -1, probes |-> probes]
    ELSE IF ~getQuery(qs, i, TRUE) THEN findQueryIDFrom(qs, id, i - 1, until, probes + 1)
    ELSE IF qs[i].id = id THEN [ret |-> i, probes |-> probes + 1]
    ELSE findQueryIDFrom(qs, id, i - 1, until, probes + 1)

\* findQueryID(id) on the query records qs with counters->queries = n: the
\* returned index and the number of slots probed.
findQueryID(qs, n, id) ==
    findQueryIDFrom(qs, id, findQueryID_start(n), findQueryID_until(n), 0)

\* The resolver appends a query record that carries correlation ID id.
AddQuery(id) ==
    /\ counters.queries < MaxHistory
    /\ queries' = [i \in 0 .. counters.queries |->
                      IF i < counters.queries THEN queries[i]
                      ELSE [timestamp |-> 0, status |-> QUERY_UNKNOWN, given |-> FALSE,
                            id |-> id, magic |-> MAGICBYTE]]
    /\ counters' = [counters EXCEPT !.queries = @ + 1]
    /\ last' = [op |-> "add_query"]
    /\ UNCHANGED <<creating, upstreams, overTime, domains, clients, dns_cache, strpool, calls, events,
                   startup, shm_lock, reload, gravityDB, focus>>

\* The slot of a live query is found dead: its liveness tag is cleared.
FreeQuery(queryID) ==
    /\ getQuery(queries, queryID, TRUE)
    /\ queries' = [queries EXCEPT ![queryID].magic = 0]
    /\ last' = [op |-> "free_query"]
    /\ UNCHANGED <<creating, upstreams, counters, overTime, domains, clients, dns_cache, strpool, calls,
                   events, startup, shm_lock, reload, gravityDB, focus>>

\* A call findQueryID(id).
FindQueryID(id) ==
    LET r == findQueryID(queries, counters.queries, id)
    IN  /\ last' = [op |-> "findQueryID", id |-> id, ret |-> r.ret, probes |-> r.probes]
        /\ UNCHANGED <<creating, upstreams, counters, overTime, queries, domains, clients, dns_cache,
                       strpool, calls, events, startup, shm_lock, reload, gravityDB,
                       focus>>

NextQuery ==
    \/ \E id \in QueryIDs : AddQuery(id)
    \/ \E q \in 0 .. (MaxHistory - 1) : FreeQuery(q)
    \/ \E id \in LookupIDs : FindQueryID(id)

InitQuery == Init /\ focus = "query"
SpecQuery == InitQuery /\ [][NextQuery]_vars

(***************************************************************************)
(* Upstream operations.                                                    *)
(***************************************************************************)
UpstreamState ==
    [upstreams |-> upstreams, n |-> counters.upstreams, strpool |-> strpool,
     events |-> events]

\* A call findUpstreamID(upstreamString, port).
FindUpstream(upstreamString, port) ==
    LET r == findUpstreamID(UpstreamState, upstreamString, port)
    IN  /\ r.n <= MaxSlots
        /\ upstreams' = r.upstreams
        /\ strpool' = r.strpool
        /\ events' = r.events
        /\ counters' = [counters EXCEPT !.upstreams = r.n]
        /\ last' = [op |-> "find", kind |-> "upstream",
                    ret |-> r.ret, created |-> r.created,
                    n |-> counters.upstreams,
                    expect |-> LowestDead(upstreams, counters.upstreams)]
        /\ UNCHANGED <<creating, overTime, queries, domains, clients, dns_cache, calls, startup,
                       shm_lock, reload, gravityDB, focus>>

\* The slot of a live upstream is freed (tombstoned): its liveness tag is
\* cleared.
FreeUpstream(upstreamID) ==
    /\ upstreamID < counters.upstreams
    /\ getUpstream(upstreams, upstreamID, TRUE)
    /\ upstreams' = [upstreams EXCEPT ![upstreamID].magic = 0]
    /\ last' = [op |-> "free", kind |-> "upstream", ret |-> upstreamID]
    /\ UNCHANGED <<creating, counters, overTime, queries, domains, clients, dns_cache, strpool,
                   calls, events, startup, shm_lock, reload, gravityDB, focus>>

NextUpstream ==
    \/ \E a \in UpstreamAddrs, p \in UpstreamPorts : FindUpstream(a, p)
    \/ \E id \in 0 .. (MaxSlots - 1) : FreeUpstream(id)

InitUpstream == Init /\ focus = "upstream"
SpecUpstream == InitUpstream /\ [][NextUpstream]_vars

(***************************************************************************)
(* Find-or-create on an arena that cannot grow: the slots below the        *)
(* high-water mark exist, no slot at or above it can be handed out.        *)
(***************************************************************************)
\* The slots the arena hands out when it cannot grow beyond n slots.
Restrict(slots, n) == [i \in {j \in DOMAIN slots : j < n} |-> slots[i]]

\* The shared memory after a call that worked on the slots of part.
Overlay(slots, part) ==
    [i \in DOMAIN slots |-> IF i \in DOMAIN part THEN part[i] ELSE slots[i]]

ExhaustedDomainState == [DomainState EXCEPT !.domains = Restrict(@, counters.domains)]
ExhaustedClientState == [ClientState EXCEPT !.clients = Restrict(@, counters.clients)]
ExhaustedCacheState ==
    [CacheState EXCEPT !.dns_cache = Restrict(@, counters.dns_cache_size)]
ExhaustedUpstreamState ==
    [UpstreamState EXCEPT !.upstreams = Restrict(@, counters.upstreams)]

\* A call findDomainID(domainString, count) on an arena that cannot grow.
FindDomainExhausted(domainString, count) ==
    LET S == ExhaustedDomainState
        r == findDomainID(S, domainString, count)
    IN  /\ r.n <= MaxSlots
        /\ SumTo([i \in DOMAIN domains |-> Overlay(domains, r.domains)[i].count],
                 MaxSlots - 1) <= MaxCount
        /\ domains' = Overlay(domains, r.domains)
        /\ strpool' = r.strpool
        /\ counters' = [counters EXCEPT !.domains = r.n]
        /\ last' = [op |-> "find", kind |-> "domain", exhausted |-> TRUE,
                    ret |-> r.ret, created |-> r.created, requested |-> TRUE,
                    n |-> counters.domains,
                    intact |-> /\ r.domains = S.domains /\ r.n = S.n
                               /\ r.strpool = S.strpool]
        /\ UNCHANGED <<creating, upstreams, shm_lock, reload, gravityDB, events, startup, dns_cache,
                       overTime, queries, clients, calls, focus>>

\* A call findClientID(clientIP, count, aliasclient) on an arena that
\* cannot grow.
FindClientExhausted(clientIP, count, aliasclient) ==
    LET S == ExhaustedClientState
        r == findClientID(S, clientIP, count, aliasclient, -1)
    IN  /\ r.n <= MaxSlots
        /\ ClientsBounded(Overlay(clients, r.clients), r.overTime)
        /\ clients' = Overlay(clients, r.clients)
        /\ overTime' = r.overTime
        /\ strpool' = r.strpool
        /\ events' = r.events
        /\ counters' = [counters EXCEPT !.clients = r.n]
        /\ calls' = IF r.ret < 0 THEN calls
                    ELSE [calls EXCEPT ![r.ret] =
                             IF ~count \/ aliasclient THEN -1
                             ELSE IF r.created THEN 1
                             ELSE IF @ < 0 THEN -1 ELSE @ + 1]
        /\ last' = [op |-> "find", kind |-> "client", exhausted |-> TRUE,
                    ret |-> r.ret, created |-> r.created,
                    requested |-> count \/ aliasclient,
                    n |-> counters.clients,
                    intact |-> /\ r.clients = S.clients /\ r.n = S.n
                               /\ r.strpool = S.strpool /\ r.events = S.events
                               /\ r.overTime = S.overTime]
        /\ UNCHANGED <<creating, upstreams, shm_lock, reload, gravityDB, startup, dns_cache,
                       queries, domains, focus>>

\* A call findCacheID(domainID, clientID, query_type, create_new) on an
\* arena that cannot grow.
FindCacheExhausted(domainID, clientID, query_type, create_new) ==
    LET S == ExhaustedCacheState
        r == findCacheID(S, domainID, clientID, query_type, create_new)
    IN  /\ r.n <= MaxSlots
        /\ dns_cache' = Overlay(dns_cache, r.dns_cache)
        /\ counters' = [counters EXCEPT !.dns_cache_size = r.n]
        /\ last' = [op |-> "find", kind |-> "cache", exhausted |-> TRUE,
                    ret |-> r.ret, created |-> r.created, requested |-> create_new,
                    n |-> counters.dns_cache_size,
                    intact |-> r.dns_cache = S.dns_cache /\ r.n = S.n]
        /\ UNCHANGED <<creating, upstreams, shm_lock, reload, gravityDB, events, startup, overTime,
                       queries, domains, clients, strpool, calls, focus>>

\* A call findUpstreamID(upstreamString, port) on an arena that cannot grow.
FindUpstreamExhausted(upstreamString, port) ==
    LET S == ExhaustedUpstreamState
        r == findUpstreamID(S, upstreamString, port)
    IN  /\ r.n <= MaxSlots
        /\ upstreams' = Overlay(upstreams, r.upstreams)
        /\ strpool' = r.strpool
        /\ events' = r.events
        /\ counters' = [counters EXCEPT !.upstreams = r.n]
        /\ last' = [op |-> "find", kind |-> "upstream", exhausted |-> TRUE,
                    ret |-> r.ret, created |-> r.created, requested |-> TRUE,
                    n |-> counters.upstreams,
                    intact |-> /\ r.upstreams = S.upstreams /\ r.n = S.n
                               /\ r.strpool = S.strpool /\ r.events = S.events]
        /\ UNCHANGED <<creating, overTime, queries, domains, clients, dns_cache, calls, startup,
                       shm_lock, reload, gravityDB, focus>>

NextAlloc ==
    \/ focus = "alloc_domain" /\ \E name \in DomainNames : FindDomain(name, FALSE)
    \/ focus = "alloc_domain" /\ \E id \in 0 .. (MaxSlots - 1) : FreeDomain(id)
    \/ focus = "alloc_domain" /\ \E name \in DomainNames : FindDomainExhausted(name, FALSE)
    \/ focus = "alloc_client" /\ \E ip \in ClientIPs \cup AliasNames :
                                     FindClient(ip, TRUE, ip \in AliasNames, -1)
    \/ focus = "alloc_client" /\ \E id \in 0 .. (MaxSlots - 1) : FreeClient(id)
    \/ focus = "alloc_client" /\ \E ip \in ClientIPs \cup AliasNames, count \in BOOLEAN :
                                     FindClientExhausted(ip, count, ip \in AliasNames)
    \/ focus = "alloc_cache" /\ NextCache
    \/ focus = "alloc_cache" /\ \E k \in CacheKeys, create_new \in BOOLEAN :
                                    FindCacheExhausted(k[1], k[2], k[3], create_new)
    \/ focus = "alloc_upstream" /\ NextUpstream
    \/ focus = "alloc_upstream" /\ \E a \in UpstreamAddrs, p \in UpstreamPorts :
                                       FindUpstreamExhausted(a, p)

InitAlloc ==
    Init /\ focus \in {"alloc_domain", "alloc_client", "alloc_cache", "alloc_upstream"}
SpecAlloc == InitAlloc /\ [][NextAlloc]_vars

(***************************************************************************)
(* The pre-filters of the lookup loops, and resolvers without them.        *)
(***************************************************************************)
\* The lookup loop of _findDomainID without the hash test: the first slot
\* whose name equals domainString, or -1.
RECURSIVE scanDomains_exact(_, _, _, _, _)
scanDomains_exact(doms, n, pool, domainString, domainID) ==
    IF domainID >= n THEN -1
    ELSE IF ~getDomain(doms, domainID, FALSE)
         THEN scanDomains_exact(doms, n, pool, domainString, domainID + 1)
    ELSE IF getstr(pool, doms[domainID].domainpos) = domainString THEN domainID
    ELSE scanDomains_exact(doms, n, pool, domainString, domainID + 1)

\* The lookup loop of _findClientID without the first-character test: the
\* first live slot whose IP equals clientIP, or -1.
RECURSIVE scanClients_exact(_, _, _, _, _)
scanClients_exact(cls, n, pool, clientIP, clientID) ==
    IF clientID >= n THEN -1
    ELSE IF ~getClient(cls, clientID, TRUE)
         THEN scanClients_exact(cls, n, pool, clientIP, clientID + 1)
    ELSE IF getstr(pool, cls[clientID].ippos) = clientIP THEN clientID
    ELSE scanClients_exact(cls, n, pool, clientIP, clientID + 1)

\* The reference resolvers: the exact lookup loop, then the rest of the
\* find-or-create.
findDomainID_exact(D, domainString, count) ==
    findDomainIDAfter(D, domainString, count,
                      scanDomains_exact(D.domains, D.n, D.strpool, domainString, 0))
findClientID_exact(S, clientIP, count, aliasclient, link) ==
    findClientIDAfter(S, clientIP, count, aliasclient, link,
                      scanClients_exact(S.clients, S.n, S.strpool, clientIP, 0))

NextHash ==
    \/ focus = "hash_domain" /\ \E name \in CollidingNames, count \in BOOLEAN :
                                    FindDomain(name, count)
    \/ focus = "hash_domain" /\ \E id \in 0 .. (MaxSlots - 1) : FreeDomain(id)
    \/ focus = "hash_client" /\ \E ip \in ClientIPs \cup AliasNames :
                                    FindClient(ip, TRUE, ip \in AliasNames, -1)
    \/ focus = "hash_client" /\ \E id \in 0 .. (MaxSlots - 1) : FreeClient(id)

InitHash == Init /\ focus \in {"hash_domain", "hash_client"}
SpecHash == InitHash /\ [][NextHash]_vars

(***************************************************************************)
(* The client accessors getClientIPString and getClientNameString.         *)
(***************************************************************************)
PRIVACY_HIDE_DOMAINS_CLIENTS == 2
\* "0.0.0.0"
HIDDEN_CLIENT == <<48, 46, 48, 46, 48, 46, 48>>

\* The host name the resolver finds for clients ("h").
HostNames == {<<104>>}

\* The queries the model hands to the client accessors: their client IDs
\* run from -1 (none) to one past the slots, their privacy levels from none
\* to above the threshold.
ClientQueryArgs ==
    {[clientID |-> c, privacylevel |-> p] :
        c \in -1 .. MaxSlots, p \in 0 .. (PRIVACY_HIDE_DOMAINS_CLIENTS + 1)}

\* Mutant: the client record is looked up before the privacy level is tested.
getClientIPString_lookupfirst(query, cls, pool) ==
    IF query = NULL \/ query.clientID < 0 THEN << >>
    ELSE IF ~getClient(cls, query.clientID, TRUE) THEN << >>
    ELSE IF query.privacylevel < PRIVACY_HIDE_DOMAINS_CLIENTS
         THEN getstr(pool, cls[query.clientID].ippos)
    ELSE HIDDEN_CLIENT

\* getClientIPString(query) on the client slots cls and the string pool.
getClientIPString(query, cls, pool) ==
    IF query = NULL \/ query.clientID < 0 THEN << >>
    ELSE IF query.privacylevel < PRIVACY_HIDE_DOMAINS_CLIENTS
         THEN IF ~getClient(cls, query.clientID, TRUE) THEN << >>
              ELSE getstr(pool, cls[query.clientID].ippos)
    ELSE HIDDEN_CLIENT

\* getClientNameString(query)
getClientNameString(query, cls, pool) ==
    IF query = NULL \/ query.clientID < 0 THEN << >>
    ELSE IF query.privacylevel < PRIVACY_HIDE_DOMAINS_CLIENTS
         THEN IF ~getClient(cls, query.clientID, TRUE) THEN << >>
              ELSE getstr(pool, cls[query.clientID].namepos)
    ELSE HIDDEN_CLIENT

\* A call getClientIPString(query) or getClientNameString(query): nothing of
\* the store changes.
GetClientString(query, name) ==
    /\ last' = [op |-> "getClientString", name |-> name,
                hidden |-> query.privacylevel >= PRIVACY_HIDE_DOMAINS_CLIENTS,
                found |-> getClient(clients, query.clientID, TRUE),
                ret |-> IF name THEN getClientNameString(query, clients, strpool)
                        ELSE getClientIPString(query, clients, strpool)]
    /\ UNCHANGED <<creating, upstreams, shm_lock, reload, gravityDB, events, startup, counters,
                   overTime, queries, domains, clients, dns_cache, strpool, calls, focus>>

\* The resolver stores the host name it found for a live client.
ResolveClientName(clientID, hostname) ==
    /\ clientID < counters.clients
    /\ getClient(clients, clientID, TRUE)
    /\ clients[clientID].namepos = 0
    /\ LET added == addstr(strpool, hostname)
       IN  /\ clients' = [clients EXCEPT ![clientID].namepos = added.pos]
           /\ strpool' = added.pool
    /\ last' = [op |-> "resolve", ret |-> clientID]
    /\ UNCHANGED <<creating, upstreams, shm_lock, reload, gravityDB, events, startup, counters,
                   overTime, queries, domains, dns_cache, calls, focus>>

NextAccess ==
    \/ focus = "access_domain" /\ NextPrivacy
    \/ focus = "access_client" /\ \E ip \in ClientIPs : FindClient(ip, TRUE, FALSE, -1)
    \/ focus = "access_client" /\ \E id \in 0 .. (MaxSlots - 1) : FreeClient(id)
    \/ focus = "access_client" /\ \E id \in 0 .. (MaxSlots - 1), h \in HostNames :
                                      ResolveClientName(id, h)
    \/ focus = "access_client" /\ \E query \in ClientQueryArgs, name \in BOOLEAN :
                                      GetClientString(query, name)

InitAccess == Init /\ focus \in {"access_domain", "access_client"}
SpecAccess == InitAccess /\ [][NextAccess]_vars

(***************************************************************************)
(* The global status getters.                                              *)
(***************************************************************************)
\* get_blocked_count() on the histogram status.
get_blocked_count(status) ==
    SumTo([s \in DOMAIN status |-> IF is_blocked(s) THEN status[s] ELSE 0],
          QUERY_STATUS_MAX - 1)

\* Mutant: only the queries with status QUERY_FORWARDED are counted.
get_forwarded_count_only(status) == status[QUERY_FORWARDED]

\* get_forwarded_count()
get_forwarded_count(status) ==
    status[QUERY_FORWARDED] + status[QUERY_RETRIED] + status[QUERY_RETRIED_DNSSEC]

\* get_cached_count()
get_cached_count(status) == status[QUERY_CACHE] + status[QUERY_CACHE_STALE]

(***************************************************************************)
(* Calls of query_set_status_init and query_set_status in any order: a     *)
(* transition of a query that was never given a status, an initial         *)
(* assignment repeated.                                                    *)
(***************************************************************************)
\* The values passed as new_status here: one of every class of valid
\* statuses.
AnyStatusArg == {QUERY_UNKNOWN, QUERY_GRAVITY, QUERY_FORWARDED, QUERY_CACHE}

QuerySetStatusAny(q, new_status, init) ==
    /\ q \in DOMAIN queries
    /\ LET st == query_set_status(StatusState, q, new_status, init)
       IN  /\ SumTo(st.status, QUERY_STATUS_MAX - 1) <= MaxQueries
           /\ counters' = [counters EXCEPT !.status = st.status]
           /\ overTime' = st.overTime
           /\ queries' = [st.queries EXCEPT
                             ![q].given = @ \/ (init /\ new_status < QUERY_STATUS_MAX),
                             ![q].early = @ \/ (~init /\ ~queries[q].given
                                                /\ st # StatusState)]
           /\ last' = [op |-> "query_set_status",
                       repeated |-> init /\ queries[q].given]
           /\ UNCHANGED <<creating, upstreams, shm_lock, reload, gravityDB, events, startup,
                          dns_cache, domains, clients, strpool, calls, focus>>

NextStatusAny ==
    \/ NewQuery(0)
    \/ \E q \in 0 .. (MaxQueries - 1), s \in AnyStatusArg, init \in BOOLEAN :
          QuerySetStatusAny(q, s, init)

InitStatusAny == Init /\ focus = "status_any"
SpecStatusAny == InitStatusAny /\ [][NextStatusAny]_vars

(***************************************************************************)
(* The creation paths of _findDomainID, _findClientID and _findCacheID,    *)
(* one store at a time, and a context that reads the slots meanwhile.      *)
(* creating.pc is 0 when no record is being created, else the number of    *)
(* the store the creation makes next; creating.target is the record the    *)
(* call leaves in slot creating.id.                                        *)
(***************************************************************************)
\* The fields of a new record in the order the code stores them; the count
\* of the kind is increased after the last of them.
DomainStores == <<"magic", "count", "blockedcount", "domainpos", "domainhash">>
ClientStores ==
    <<"magic", "count", "blockedcount", "ippos", "namepos", "aliasclient",
      "aliasclient_id", "overTime", "id">>
CacheStores ==
    <<"magic", "blocking_status", "domainID", "clientID", "query_type", "force_reply",
      "list_id">>
CreateStores ==
    IF focus = "create_domain" THEN DomainStores
    ELSE IF focus = "create_client" THEN ClientStores ELSE CacheStores

\* The fields a reader identifies a record by.
KeyFields ==
    IF focus = "create_domain" THEN {"domainpos", "domainhash"}
    ELSE IF focus = "create_client" THEN {"ippos"}
    ELSE {"domainID", "clientID", "query_type"}

\* findDomainID(domainString, true) has found no record of the name and has
\* got the slot of the new one.
StartCreateDomain(domainString) ==
    LET r == findDomainID(DomainState, domainString, TRUE)
    IN  /\ creating.pc = 0
        /\ r.created /\ r.n <= MaxSlots
        /\ creating' = [pc |-> 1, id |-> r.ret, target |-> r.domains[r.ret],
                        strpool |-> r.strpool, events |-> events]
        /\ last' = [op |-> "create", id |-> r.ret, reused |-> r.ret < counters.domains]
        /\ UNCHANGED <<counters, overTime, queries, domains, clients, dns_cache, upstreams,
                       strpool, calls, events, startup, shm_lock, reload, gravityDB, focus>>

\* findClientID(clientIP, true, false) has found no live record of the IP.
StartCreateClient(clientIP) ==
    LET r == findClientID(ClientState, clientIP, TRUE, FALSE, -1)
    IN  /\ creating.pc = 0
        /\ r.created /\ r.n <= MaxSlots
        /\ creating' = [pc |-> 1, id |-> r.ret, target |-> r.clients[r.ret],
                        strpool |-> r.strpool, events |-> r.events]
        /\ last' = [op |-> "create", id |-> r.ret, reused |-> r.ret < counters.clients]
        /\ UNCHANGED <<counters, overTime, queries, domains, clients, dns_cache, upstreams,
                       strpool, calls, events, startup, shm_lock, reload, gravityDB, focus>>

\* findCacheID(domainID, clientID, query_type, true) has found no live entry
\* of the key.
StartCreateCache(domainID, clientID, query_type) ==
    LET r == findCacheID(CacheState, domainID, clientID, query_type, TRUE)
    IN  /\ creating.pc = 0
        /\ r.created /\ r.n <= MaxSlots
        /\ creating' = [pc |-> 1, id |-> r.ret, target |-> r.dns_cache[r.ret],
                        strpool |-> strpool, events |-> events]
        /\ last' = [op |-> "create", id |-> r.ret,
                    reused |-> r.ret < counters.dns_cache_size]
        /\ UNCHANGED <<counters, overTime, queries, domains, clients, dns_cache, upstreams,
                       strpool, calls, events, startup, shm_lock, reload, gravityDB, focus>>

\* The next store of the creation: one field of the slot; addstr interns the
\* name with the store of its position, set_event follows the store of
\* namepos.
CreateStore ==
    LET field == CreateStores[creating.pc]
        Stored(slots) == [slots EXCEPT ![creating.id][field] = creating.target[field]]
    IN  /\ creating.pc \in 1 .. Len(CreateStores)
        /\ domains' = IF focus = "create_domain" THEN Stored(domains) ELSE domains
        /\ clients' = IF focus = "create_client" THEN Stored(clients) ELSE clients
        /\ dns_cache' = IF focus = "create_cache" THEN Stored(dns_cache) ELSE dns_cache
        /\ strpool' = IF field \in {"domainpos", "ippos"} THEN creating.strpool ELSE strpool
        /\ events' = IF field = "namepos" THEN creating.events ELSE events
        /\ creating' = [creating EXCEPT !.pc = @ + 1]
        /\ last' = [op |-> "store", field |-> field]
        /\ UNCHANGED <<counters, overTime, queries, upstreams, calls, startup, shm_lock,
                       reload, gravityDB, focus>>

\* The last statement of the creation: the count of the kind is increased.
CreateCount ==
    /\ creating.pc = Len(CreateStores) + 1
    /\ counters' = IF focus = "create_domain" THEN [counters EXCEPT !.domains = @ + 1]
                   ELSE IF focus = "create_client"
                        THEN [counters EXCEPT !.clients = @ + 1]
                   ELSE [counters EXCEPT !.dns_cache_size = @ + 1]
    /\ creating' = NoCreation
    /\ last' = [op |-> "created", id |-> creating.id]
    /\ UNCHANGED <<overTime, queries, domains, clients, dns_cache, upstreams, strpool,
                   calls, events, startup, shm_lock, reload, gravityDB, focus>>

\* The slots and the count of the kind of record that is created.
CreateSlots ==
    IF focus = "create_domain" THEN domains
    ELSE IF focus = "create_client" THEN clients ELSE dns_cache
CreateCounter ==
    IF focus = "create_domain" THEN counters.domains
    ELSE IF focus = "create_client" THEN counters.clients ELSE counters.dns_cache_size

ZeroCreate ==
    IF focus = "create_domain" THEN ZeroDomain
    ELSE IF focus = "create_client" THEN ZeroClient ELSE ZeroCache

\* A reading context, on its way through the slots [0, count), reads the
\* slot id that it finds tagged live. It notes whether the slot is the one
\* under construction and whether the key fields it sees are the new
\* record's.
ReadSlot(id) ==
    /\ id < CreateCounter
    /\ CreateSlots[id].magic = MAGICBYTE
    /\ last' = [op |-> "read", id |-> id,
                building |-> creating.pc > 0 /\ creating.id = id,
                zeroed |-> \A f \in KeyFields : CreateSlots[id][f] = ZeroCreate[f],
                keys |-> creating.pc > 0 /\ creating.id = id
                            => \A f \in KeyFields :
                                   CreateSlots[id][f] = creating.target[f]]
    /\ UNCHANGED <<counters, overTime, queries, domains, clients, dns_cache, upstreams,
                   strpool, calls, events, startup, shm_lock, reload, gravityDB, creating,
                   focus>>

NextCreate ==
    \/ focus = "create_domain" /\ \E name \in DomainNames : StartCreateDomain(name)
    \/ focus = "create_client" /\ \E ip \in ClientIPs : StartCreateClient(ip)
    \/ focus = "create_cache" /\ \E k \in CacheKeys : StartCreateCache(k[1], k[2], k[3])
    \/ CreateStore
    \/ CreateCount
    \/ \E id \in 0 .. (MaxSlots - 1) : ReadSlot(id)
    \/ focus = "create_domain" /\ creating.pc = 0
          /\ \E id \in 0 .. (MaxSlots - 1) : FreeDomain(id)
    \/ focus = "create_client" /\ creating.pc = 0
          /\ \E id \in 0 .. (MaxSlots - 1) : FreeClient(id)
    \/ focus = "create_cache" /\ creating.pc = 0
          /\ \E id \in 0 .. (MaxSlots - 1) : FreeCache(id)

InitCreate == Init /\ focus \in {"create_domain", "create_client", "create_cache"}
SpecCreate == InitCreate /\ [][NextCreate]_vars

(***************************************************************************)
(* Claims about the status state machine (under SpecStatus).               *)
(***************************************************************************)
GivenQueries == {q \in DOMAIN queries : queries[q].given}

\* Queries given a status whose timestamp maps to slot b and whose status
\* is in the set S.
InSlot(b, S) ==
    {q \in GivenQueries : getOverTimeID(queries[q].timestamp) = b /\ queries[q].status \in S}

C3_Idempotent ==
    \A q \in DOMAIN queries, s \in ValidStatus :
        LET once == query_set_status(StatusState, q, s, FALSE)
        IN  query_set_status(once, q, s, FALSE) = once

\* A transition has just changed the counters.
C3_Witness ==
    last.op = "query_set_status" /\ ~last.init /\ last.valid /\ last.changed

\* C4: a call with a status >= QUERY_STATUS_MAX, init or not, changes no
\* histogram slot, no overTime counter and no query.
C4_OutOfRangeNoop ==
    /\ \A q \in DOMAIN queries, s \in StatusArg \ ValidStatus, init \in BOOLEAN :
          query_set_status(StatusState, q, s, init) = StatusState
    /\ (last.op = "query_set_status" /\ ~last.valid) => ~last.changed

\* An out-of-range transition was just made on a query that has a status,
\* while another query's initial assignment is still outstanding.
C4_Witness ==
    /\ last.op = "query_set_status" /\ ~last.valid /\ ~last.init
    /\ GivenQueries # {}
    /\ \E q \in DOMAIN queries : ~queries[q].given

(***************************************************************************)
(* Claims about domain identity (under SpecDomain).                        *)
(***************************************************************************)
LiveDomains ==
    {i \in DOMAIN domains : i < counters.domains /\ getDomain(domains, i, TRUE)}
DomainName(doms, pool, i) == getstr(pool, doms[i].domainpos)

\* C5: no two live domain records hold the same name; a lookup of the name
\* of a live record, counting or not, returns that record's ID and creates
\* nothing; and two lookups of distinct names, one after the other, that
\* both end on live records holding their names return distinct IDs.
C5_DomainIdentity ==
    /\ \A i, j \in LiveDomains :
          i # j => DomainName(domains, strpool, i) # DomainName(domains, strpool, j)
    /\ \A i \in LiveDomains, count \in BOOLEAN :
          LET r == findDomainID(DomainState, DomainName(domains, strpool, i), count)
          IN  r.ret = i /\ ~r.created
    /\ \A s1, s2 \in DomainNames :
          LET r1 == findDomainID(DomainState, s1, FALSE)
              r2 == findDomainID([domains |-> r1.domains, n |-> r1.n,
                                  strpool |-> r1.strpool], s2, FALSE)
              Holds(id, s) == /\ id >= 0
                              /\ r2.domains[id].magic = MAGICBYTE
                              /\ DomainName(r2.domains, r2.strpool, id) = s
          IN  (s1 # s2 /\ Holds(r1.ret, s1) /\ Holds(r2.ret, s2)) => r1.ret # r2.ret

\* A lookup has just found the live record of slot 1 while slot 0, freed
\* before, is dead.
C5_Witness ==
    /\ last.op = "find" /\ last.kind = "domain" /\ ~last.created /\ last.ret = 1
    /\ 1 \in LiveDomains
    /\ counters.domains >= 2 /\ domains[0].magic = 0

(***************************************************************************)
(* Claims about the client counters (under SpecClient and SpecCounters).   *)
(***************************************************************************)
\* C6 as stated: a live client that the last N >= 1 calls, all of them
\* counting and none for an alias-client, created and found has count N and
\* an overTime array that sums to N.
C6_CountAndOverTimeSum ==
    \A i \in LiveClients :
        calls[i] > 0 =>
            /\ clients[i].count = calls[i]
            /\ SumTo(clients[i].overTime, OVERTIME_SLOTS - 1) = calls[i]

\* C6: a live client that the last N >= 1 calls, all of them counting and
\* none for an alias-client, created and found has count N; its overTime
\* array is all zero, as the calls leave it.
C6_CountOnly ==
    \A i \in LiveClients :
        calls[i] > 0 =>
            /\ clients[i].count = calls[i]
            /\ \A b \in DOMAIN clients[i].overTime : clients[i].overTime[b] = 0

\* A counting call has just found a client a counting call created.
C6_Witness ==
    /\ last.op = "find" /\ last.kind = "client" /\ ~last.created /\ last.ret >= 0
    /\ last.ret \in LiveClients
    /\ calls[last.ret] >= 2

\* Clients that are linked to a live alias-client.
LinkedClients ==
    {i \in LiveClients : /\ ~clients[i].aliasclient
                         /\ clients[i].aliasclient_id \in LiveAliasClients}

\* C7: change_clientcount(C, +1, 0, b, +1) on a client C linked to the live
\* alias-client A adds 1 to the counts of C and of A and leaves their
\* blocked counts; with b in range it adds 1 to overTime[b] of C, of A and to
\* the global overTime[b].total, with b out of range it leaves the three
\* arrays; nothing else changes.
C7_AliasFanOut ==
    \A C \in LinkedClients, b \in OverTimeIdx :
        LET A == clients[C].aliasclient_id
            r == change_clientcount(clients, overTime, C, 1, 0, b, 1)
            inRange == b > -1 /\ b < OVERTIME_SLOTS
            Plus(f) == IF inRange THEN [f EXCEPT ![b] = @ + 1] ELSE f
        IN  /\ r.clients[C] = [clients[C] EXCEPT !.count = @ + 1,
                                                 !.overTime = Plus(@)]
            /\ r.clients[A] = [clients[A] EXCEPT !.count = @ + 1,
                                                 !.overTime = Plus(@)]
            /\ \A i \in DOMAIN clients : i \notin {C, A} => r.clients[i] = clients[i]
            /\ r.overTime = IF inRange THEN [overTime EXCEPT ![b].total = @ + 1]
                            ELSE overTime

\* A call on a linked client with a bucket in range has left count 1 and
\* overTime[0] 1 in the client and in its alias-client, and a global total of 1.
C7_Witness ==
    /\ last.op = "change_clientcount" /\ last.linked /\ last.inRange /\ last.changed
    /\ 1 \in LinkedClients
    /\ clients[1].count = 1 /\ clients[1].overTime[0] = 1
    /\ clients[0].count = 1 /\ clients[0].overTime[0] = 1
    /\ overTime[0].total = 1

\* C8: change_clientcount on a live alias-client, with any deltas and any
\* bucket, changes no client and no global overTime slot.
C8_AliasRejected ==
    \A A \in LiveAliasClients, d \in Deltas, idx \in OverTimeIdx :
        change_clientcount(clients, overTime, A, d[1], d[2], idx, d[3])
            = [clients |-> clients, overTime |-> overTime]

(***************************************************************************)
(* Claims about the record arena (under SpecArena).                        *)
(***************************************************************************)
\* The slots and the count of the kind of record a behaviour works on.
Slots == IF focus = "domain" THEN domains
         ELSE IF focus = "client" THEN clients ELSE dns_cache
Count == IF focus = "domain" THEN counters.domains
         ELSE IF focus = "client" THEN counters.clients ELSE counters.dns_cache_size
ZeroSlot == IF focus = "domain" THEN ZeroDomain
            ELSE IF focus = "client" THEN ZeroClient ELSE ZeroCache

\* C9: a find-or-create that created a record returned the lowest index
\* below the count whose slot was dead, or the count if there was none.
C9_SlotReuse ==
    (last.op = "find" /\ last.created) => last.ret = last.expect

\* A record has just been created in a dead slot below another dead slot.
C9_Witness ==
    /\ last.op = "find" /\ last.created /\ last.ret < last.n
    /\ \E j \in DOMAIN Slots : j > last.ret /\ j < last.n /\ Slots[j].magic # MAGICBYTE

\* C10: a creation that reused a dead slot has left the count as it was, and
\* every slot below the count has been allocated (is no zeroed memory).
C10_HighWaterMark ==
    /\ (last.op = "find" /\ last.created /\ last.ret < last.n) => Count = last.n
    /\ \A i \in DOMAIN Slots : i < Count => Slots[i] # ZeroSlot

(***************************************************************************)
(* Claims about the privacy projection (under SpecPrivacy).                *)
(***************************************************************************)
\* The domain stores that differ from the current one in domain records
\* only: a slot's liveness tag set or cleared, a name looked up or created,
\* and the empty store.
AltDomainStores ==
    {[domains |-> [domains EXCEPT ![i].magic = m], strpool |-> strpool] :
        i \in DOMAIN domains, m \in {0, MAGICBYTE}}
    \cup {[domains |-> findDomainID(DomainState, s, FALSE).domains,
           strpool |-> findDomainID(DomainState, s, FALSE).strpool] : s \in DomainNames}
    \cup {[domains |-> [i \in DOMAIN domains |-> ZeroDomain], strpool |-> << >>]}

\* C11: for a query whose privacy level is at or above PRIVACY_HIDE_DOMAINS,
\* getDomainString and getCNAMEDomainString return HIDDEN_DOMAIN when the
\* query refers to a domain (ID >= 0), whether or not that record exists,
\* and return the same on every store that differs in domain records only.
C11_PrivacyGating ==
    \A query \in QueryArgs :
        query.privacylevel >= PRIVACY_HIDE_DOMAINS =>
            /\ query.domainID >= 0 =>
                   getDomainString(query, domains, strpool) = HIDDEN_DOMAIN
            /\ query.CNAME_domainID >= 0 =>
                   getCNAMEDomainString(query, domains, strpool) = HIDDEN_DOMAIN
            /\ \A alt \in AltDomainStores :
                   /\ getDomainString(query, alt.domains, alt.strpool)
                          = getDomainString(query, domains, strpool)
                   /\ getCNAMEDomainString(query, alt.domains, alt.strpool)
                          = getCNAMEDomainString(query, domains, strpool)

\* getDomainString has just returned the placeholder for a hidden query
\* whose domain record, freed before, does not exist.
C11_Witness ==
    /\ last.op = "getDomainString" /\ ~last.cname /\ last.hidden /\ ~last.found
    /\ last.ret = HIDDEN_DOMAIN
    /\ counters.domains >= 1 /\ domains[0].magic = 0 /\ domains[0].domainpos > 0

(***************************************************************************)
(* Claims about the enum <-> string mappings (under SpecEnum).             *)
(***************************************************************************)
\* C12: parse(to_string(v)) = v for every valid value v of each of the six
\* enums, also when the string is written in another letter case; a token
\* that names no value parses to -1 in every enum, in any letter case; and
\* -1 is no valid value.
C12_EnumRoundTrip ==
    /\ \A kind \in EnumKinds : \A v \in ValidEnum(kind) :
           enum_val(kind, enum_str(kind, v)) = v /\ v # -1
    /\ (last.op \in {"to_string", "flip"} /\ last.src = "to_string") =>
           enum_val(last.kind, last.token) = last.v
    /\ (last.op = "parse" /\ last.src = "to_string") => last.val = last.v
    /\ (last.op \in {"token", "flip"} /\ last.src = "token") =>
           \A kind \in EnumKinds : enum_val(kind, last.token) = -1
    /\ (last.op = "parse" /\ last.src = "token") => last.val = -1

\* The name of a valid value, two of its letters in the other case, has just
\* been parsed back to the value.
C12_Witness ==
    /\ last.op = "parse" /\ last.src = "to_string" /\ last.flips = 2
    /\ last.kind = "ptr_type" /\ last.v = PTR_HOSTNAMEFQDN /\ last.val = last.v

(***************************************************************************)
(* Claims about lookups and side effects of the client resolver (under     *)
(* SpecClient and SpecEffects).                                            *)
(***************************************************************************)
\* The strings for which no live client record exists.
UnknownClients ==
    {ip \in ClientIPs \cup AliasNames :
        \A i \in LiveClients : getstr(strpool, clients[i].ippos) # ip}

\* C13: findClientID(ip, count = false, aliasclient = false) for a string
\* that no live client record holds returns -1 and changes nothing: the
\* client slots, counters->clients, the overTime array, the string pool and
\* the pending events are as before, and no external call is made.
C13_LookupOnlyMiss ==
    \A ip \in UnknownClients, link \in -1 .. (MaxSlots - 1) :
        LET r == findClientID(ClientState, ip, FALSE, FALSE, link)
        IN  /\ r.ret = -1 /\ ~r.created
            /\ r.clients = clients /\ r.n = counters.clients
            /\ r.overTime = overTime /\ r.strpool = strpool
            /\ r.events = events /\ r.effects = << >>

\* A lookup has just returned -1 while a freed slot still holds an IP.
C13_Witness ==
    /\ last.op = "find" /\ last.kind = "client" /\ last.ret = -1
    /\ UnknownClients # {}
    /\ \E i \in DOMAIN clients :
          /\ i < counters.clients /\ clients[i].magic = 0
          /\ getstr(strpool, clients[i].ippos) \in UnknownClients

(***************************************************************************)
(* Claims about the bulk reload (under SpecReload).                        *)
(***************************************************************************)
\* C14: FTL_reload_all_domainlists holds the lock from its first statement
\* after lock_shm up to unlock_shm, so whenever it is past lock_shm the lock
\* is its own; when it has returned it has released the lock exactly once;
\* and a context that took the lock never found the reload under way, nor a
\* cache of which only a part had been reset.
C14_ReloadUnderLock ==
    /\ reload.pc \notin {"idle", "lock_shm"} => shm_lock = "reload"
    /\ reload.pc \in {"idle", "lock_shm"} => shm_lock = "free"
    /\ (reload.pc = "idle" /\ last.op = "reload") => reload.unlocks = 1
    /\ last.op = "observe" => ~last.underway /\ ~last.partial

\* The reload is resetting the cache, the first of two entries that had a
\* blocking status is reset, the second is not yet.
C14_Witness ==
    /\ reload.pc = "FTL_reset_per_client_domain_data" /\ reload.cacheID = 1
    /\ shm_lock = "reload"
    /\ ResetDone # {} /\ dns_cache[0].blocking_status = UNKNOWN_BLOCKED
    /\ \E j \in ResetPending : dns_cache[j].blocking_status # UNKNOWN_BLOCKED

\* C17: after FTL_reload_all_domainlists has returned, every database
\* counter holds the row count of its own table: gravity, groups, clients,
\* lists and bulk lists, the allowed-domains counter that of the
\* allowed-domains table and the denied-domains counter that of the
\* denied-domains table.
C17_OwnTableCounts ==
    (reload.pc = "idle" /\ last.op = "reload" /\ last.stmt = "unlock_shm") =>
        /\ counters.database.gravity = gravityDB["GRAVITY_TABLE"]
        /\ counters.database.groups = gravityDB["GROUPS_TABLE"]
        /\ counters.database.clients = gravityDB["CLIENTS_TABLE"]
        /\ counters.database.lists = gravityDB["ADLISTS_TABLE"]
        /\ counters.database.bulklists = gravityDB["BULKLISTS_TABLE"]
        /\ counters.database.domains.allowed = gravityDB["ALLOWED_DOMAINS_TABLE"]
        /\ counters.database.domains.denied = gravityDB["DENIED_DOMAINS_TABLE"]

(***************************************************************************)
(* Claims about the side effects of client creation (under SpecEffects).   *)
(***************************************************************************)
\* The calls a client creation made, by name.
EffectCalls == {last.effects[i].call : i \in DOMAIN last.effects}

\* C16, as stated: a creation of an alias-client, or of any record during
\* startup, triggers none of the three side effects; a creation of a
\* concrete client after startup triggers all three, each after the client
\* count has been increased.
C16_EffectsGated ==
    (last.op = "find" /\ last.created) =>
        IF startup \/ clients[last.ret].aliasclient
        THEN last.effects = << >>
        ELSE /\ EffectCalls = {"set_event", "reload_per_client_regex", "reset_aliasclient"}
             /\ \A i \in DOMAIN last.effects : last.effects[i].clients = last.n + 1

\* C16, amended: every creation requests hostname resolution, before the
\* client count is increased; the regex recomputation is made only for a
\* concrete client after startup and the alias-client linkage check for
\* every concrete client, during startup or after it, both after the client
\* count has been increased; a call that creates nothing triggers nothing.
C16_EffectsOfCreation ==
    last.op = "find" =>
        IF ~last.created THEN last.effects = << >>
        ELSE /\ "RESOLVE_NEW_HOSTNAMES" \in events
             /\ last.effects[1] = [call |-> "set_event", clients |-> last.n]
             /\ EffectCalls =
                    {"set_event"}
                    \cup (IF ~startup /\ ~clients[last.ret].aliasclient
                          THEN {"reload_per_client_regex"} ELSE {})
                    \cup (IF ~clients[last.ret].aliasclient
                          THEN {"reset_aliasclient"} ELSE {})
             /\ \A i \in DOMAIN last.effects :
                   i > 1 => last.effects[i].clients = last.n + 1
             /\ Len(last.effects) = Cardinality(EffectCalls)

\* A concrete client has been created during startup: hostname resolution
\* was requested and the linkage check made, the regex recomputation not.
C16_Witness ==
    /\ last.op = "find" /\ last.created /\ startup
    /\ ~clients[last.ret].aliasclient
    /\ EffectCalls = {"set_event", "reset_aliasclient"}

(***************************************************************************)
(* Claims about findQueryID (under SpecQuery).                             *)
(***************************************************************************)
\* The live queries among the MAXITER most recent that carry ID id.
MatchesInWindow(id) ==
    {i \in DOMAIN queries : /\ i >= counters.queries - MAXITER
                            /\ queries[i].magic = MAGICBYTE
                            /\ queries[i].id = id}

\* C18: findQueryID(id) probes at most MAXITER slots, none older than the
\* MAXITER most recent, skips the slots that are not live, and returns the
\* highest index of the window whose live query carries id; it returns -1
\* when the window has no such query, the empty store and a store whose
\* only match is older than the window included.
C18_BoundedLookback ==
    \A id \in LookupIDs :
        LET r == findQueryID(queries, counters.queries, id)
            W == MatchesInWindow(id)
        IN  /\ r.probes <= MAXITER
            /\ r.ret = IF W = {} THEN -1
                       ELSE CHOOSE i \in W : \A j \in W : j <= i
            /\ (last.op = "findQueryID" /\ last.id = id) => last.ret = r.ret

\* findQueryID returned -1 for the ID of a live query older than the
\* window, after skipping a dead slot inside the window.
C18_Witness ==
    /\ last.op = "findQueryID" /\ last.ret = -1 /\ last.probes = MAXITER
    /\ \E i \in DOMAIN queries : /\ i < counters.queries - MAXITER
                                 /\ queries[i].magic = MAGICBYTE
                                 /\ queries[i].id = last.id
    /\ \E j \in DOMAIN queries : j >= counters.queries - MAXITER
                                 /\ queries[j].magic # MAGICBYTE

(***************************************************************************)
(* Claims about upstream allocation (under SpecUpstream).                  *)
(***************************************************************************)
\* The live upstreams.
LiveUpstreams ==
    {i \in DOMAIN upstreams : i < counters.upstreams /\ getUpstream(upstreams, i, TRUE)}

\* At most one live upstream holds a given address and port.
UniqueUpstreams ==
    \A i, j \in LiveUpstreams :
        (/\ getstr(strpool, upstreams[i].ippos) = getstr(strpool, upstreams[j].ippos)
         /\ upstreams[i].port = upstreams[j].port) => i = j

\* C15, as stated: an upstream created on a miss gets the lowest dead slot
\* below the count if there is one, the index at the high-water mark only
\* when there is none; and at most one live upstream holds a given address
\* and port.
C15_UpstreamSlotReuse ==
    /\ (last.op = "find" /\ last.kind = "upstream" /\ last.created) =>
           last.ret = last.expect
    /\ UniqueUpstreams

\* C15, amended: an upstream created on a miss always gets the index at the
\* high-water mark, dead slots below it or not, and raises the count by
\* one; a call that finds a slot leaves the count as it is; and at most one
\* live upstream holds a given address and port.
C15_UpstreamAtHighWaterMark ==
    /\ (last.op = "find" /\ last.kind = "upstream" /\ last.created) =>
           /\ last.ret = last.n
           /\ counters.upstreams = last.n + 1
    /\ (last.op = "find" /\ last.kind = "upstream" /\ ~last.created /\ last.ret >= 0) =>
           counters.upstreams = last.n
    /\ UniqueUpstreams

\* An upstream has been created at the high-water mark although a slot
\* below it was dead.
C15_Witness ==
    /\ last.op = "find" /\ last.kind = "upstream" /\ last.created
    /\ last.expect < last.n /\ last.ret = last.n
    /\ upstreams[last.expect].magic # MAGICBYTE

(***************************************************************************)
(* Claims about allocation failure (under SpecAlloc).                      *)
(***************************************************************************)
\* No slot below the high-water mark n is dead.
NoDeadSlot(slots, n) == \A i \in DOMAIN slots : i < n => slots[i].magic = MAGICBYTE

\* C19: when the arena cannot hand out the slot chosen for a new record,
\* the find-or-create of each kind returns -1 and leaves the count of the
\* kind, every record, the string pool and the pending events as they were;
\* and this is what a creating call does whenever no slot below the
\* high-water mark holds the key and none of them is dead.
C19_AllocFailureIntact ==
    /\ focus = "alloc_domain" =>
       \A name \in DomainNames, count \in BOOLEAN :
          LET S == ExhaustedDomainState
              r == findDomainID(S, name, count)
          IN  /\ r.ret = -1 => /\ r.domains = S.domains /\ r.n = S.n
                               /\ r.strpool = S.strpool
              /\ (/\ NoDeadSlot(domains, counters.domains)
                  /\ \A i \in DOMAIN S.domains :
                        DomainName(domains, strpool, i) # name) => r.ret = -1
    /\ focus = "alloc_client" =>
       \A ip \in ClientIPs \cup AliasNames :
          LET S == ExhaustedClientState
              r == findClientID(S, ip, TRUE, ip \in AliasNames, -1)
          IN  /\ r.ret = -1 => /\ r.clients = S.clients /\ r.n = S.n
                               /\ r.strpool = S.strpool /\ r.events = S.events
                               /\ r.overTime = S.overTime
              /\ (/\ NoDeadSlot(clients, counters.clients)
                  /\ \A i \in DOMAIN S.clients :
                        getstr(strpool, clients[i].ippos) # ip) => r.ret = -1
    /\ focus = "alloc_cache" =>
       \A k \in CacheKeys :
          LET S == ExhaustedCacheState
              r == findCacheID(S, k[1], k[2], k[3], TRUE)
          IN  /\ r.ret = -1 => r.dns_cache = S.dns_cache /\ r.n = S.n
              /\ (/\ NoDeadSlot(dns_cache, counters.dns_cache_size)
                  /\ \A i \in DOMAIN S.dns_cache :
                        <<dns_cache[i].domainID, dns_cache[i].clientID,
                          dns_cache[i].query_type>> # k) => r.ret = -1
    /\ focus = "alloc_upstream" =>
       \A a \in UpstreamAddrs, p \in UpstreamPorts :
          LET S == ExhaustedUpstreamState
              r == findUpstreamID(S, a, p)
          IN  /\ r.ret = -1 => /\ r.upstreams = S.upstreams /\ r.n = S.n
                               /\ r.strpool = S.strpool /\ r.events = S.events
              /\ (\A i \in DOMAIN S.upstreams :
                     <<getstr(strpool, upstreams[i].ippos), upstreams[i].port>> # <<a, p>>)
                 => r.ret = -1
    /\ (/\ last.op = "find" /\ "exhausted" \in DOMAIN last
        /\ last.requested /\ last.ret = -1) => last.intact

\* A creating client call has failed on a store that holds records,
\* strings and a pending event.
C19_Witness ==
    /\ last.op = "find" /\ "exhausted" \in DOMAIN last /\ last.kind = "client"
    /\ last.requested /\ last.ret = -1 /\ last.intact
    /\ counters.clients > 0 /\ strpool # << >> /\ events # {}

(***************************************************************************)
(* Claims about the pre-filters of the lookup loops (under SpecHash).      *)
(***************************************************************************)
\* C20: for every name, the domain find-or-create with the hash test
\* returns the same ID and leaves the same store as the resolver that
\* compares the strings only, names with equal hashes and the empty name
\* included; and so does the client find-or-create with its test of the
\* first character.
C20_PreFilterOnlyAccelerates ==
    /\ focus = "hash_domain" =>
       \A name \in CollidingNames \cup {<< >>}, count \in BOOLEAN :
          findDomainID(DomainState, name, count)
              = findDomainID_exact(DomainState, name, count)
    /\ focus = "hash_client" =>
       \A ip \in ClientIPs \cup AliasNames \cup {<< >>}, count \in BOOLEAN :
          findClientID(ClientState, ip, count, ip \in AliasNames, -1)
              = findClientID_exact(ClientState, ip, count, ip \in AliasNames, -1)

\* A lookup has found a domain in a slot behind that of a domain with the
\* same hash and another name.
C20_Witness ==
    /\ focus = "hash_domain"
    /\ last.op = "find" /\ ~last.created /\ last.ret >= 0
    /\ \E i \in LiveDomains :
          /\ i < last.ret
          /\ domains[i].domainhash = domains[last.ret].domainhash
          /\ DomainName(domains, strpool, i) # DomainName(domains, strpool, last.ret)

(***************************************************************************)
(* Claims about the frame of a status transition (under SpecStatus).       *)
(***************************************************************************)
\* C21: a call of _query_set_status on query q changes at most the
\* histogram slots of q's old and new status, the blocked, cached and
\* forwarded counts of the overTime slot of q's timestamp, and q's status:
\* the total of every slot, every other slot, the counts of the kinds, the
\* domain, client, cache and upstream records, the string pool and every
\* other query stay as they are, and q keeps its timestamp, so all its
\* transitions hit the same slot.
C21_TransitionFrame ==
    [][last'.op = "query_set_status" =>
        /\ UNCHANGED <<domains, clients, dns_cache, upstreams, strpool, events>>
        /\ [counters' EXCEPT !.status = counters.status] = counters
        /\ DOMAIN queries' = DOMAIN queries
        /\ \A b \in DOMAIN overTime : overTime'[b].total = overTime[b].total
        /\ \E q \in DOMAIN queries :
              /\ \A o \in DOMAIN queries \ {q} : queries'[o] = queries[o]
              /\ queries'[q].timestamp = queries[q].timestamp
              /\ \A b \in DOMAIN overTime :
                    b # getOverTimeID(queries[q].timestamp) => overTime'[b] = overTime[b]
              /\ \A s \in ValidStatus :
                    s \notin {queries[q].status, queries'[q].status}
                        => counters'.status[s] = counters.status[s]]_vars

\* A transition has changed a query while another query sits in another
\* overTime slot that holds counts.
C21_Witness ==
    /\ last.op = "query_set_status" /\ ~last.init /\ last.changed
    /\ \E q, o \in DOMAIN queries :
          /\ getOverTimeID(queries[q].timestamp) # getOverTimeID(queries[o].timestamp)
          /\ queries[q].given /\ queries[o].given
          /\ is_blocked(queries[q].status) /\ is_blocked(queries[o].status)

(***************************************************************************)
(* Claims about the order of checks in the accessors (under SpecAccess).   *)
(***************************************************************************)
\* C22, as stated: each of the four accessors returns the empty string for
\* an absent query and for a negative ID, and for a record the arena does
\* not find, whatever the privacy level; for a record that is found, the
\* interned string below the accessor's threshold and the placeholder at or
\* above it.
C22_LookupBeforePrivacy ==
    /\ \A query \in QueryArgs :
          /\ (query.domainID >= 0 /\ ~getDomain(domains, query.domainID, TRUE))
                 => getDomainString(query, domains, strpool) = << >>
          /\ (query.CNAME_domainID >= 0 /\ ~getDomain(domains, query.CNAME_domainID, TRUE))
                 => getCNAMEDomainString(query, domains, strpool) = << >>
    /\ \A query \in ClientQueryArgs :
          (query.clientID >= 0 /\ ~getClient(clients, query.clientID, TRUE))
              => /\ getClientIPString(query, clients, strpool) = << >>
                 /\ getClientNameString(query, clients, strpool) = << >>

\* What an accessor is to return for a reference to the record id (found
\* or not, holding str) at privacy level level under threshold.
AccessorResult(id, found, str, level, threshold, hidden) ==
    IF id < 0 THEN << >>
    ELSE IF level >= threshold THEN hidden
    ELSE IF ~found THEN << >>
    ELSE str

\* C22, amended: each accessor returns the empty string for an absent query
\* and for a negative ID; otherwise the placeholder when the privacy level
\* is at or above its threshold, whether the record is found or not;
\* otherwise the empty string when the record is not found and the interned
\* string when it is.
C22_PrivacyBeforeLookup ==
    /\ getDomainString(NULL, domains, strpool) = << >>
    /\ getCNAMEDomainString(NULL, domains, strpool) = << >>
    /\ getClientIPString(NULL, clients, strpool) = << >>
    /\ getClientNameString(NULL, clients, strpool) = << >>
    /\ \A query \in QueryArgs :
          LET d == query.domainID
              c == query.CNAME_domainID
          IN  /\ getDomainString(query, domains, strpool)
                    = AccessorResult(d, getDomain(domains, d, TRUE),
                                     IF d \in DOMAIN domains
                                     THEN getstr(strpool, domains[d].domainpos) ELSE << >>,
                                     query.privacylevel, PRIVACY_HIDE_DOMAINS,
                                     HIDDEN_DOMAIN)
              /\ getCNAMEDomainString(query, domains, strpool)
                    = AccessorResult(c, getDomain(domains, c, TRUE),
                                     IF c \in DOMAIN domains
                                     THEN getstr(strpool, domains[c].domainpos) ELSE << >>,
                                     query.privacylevel, PRIVACY_HIDE_DOMAINS,
                                     HIDDEN_DOMAIN)
    /\ \A query \in ClientQueryArgs :
          LET c == query.clientID
              found == getClient(clients, c, TRUE)
          IN  /\ getClientIPString(query, clients, strpool)
                    = AccessorResult(c, found,
                                     IF c \in DOMAIN clients
                                     THEN getstr(strpool, clients[c].ippos) ELSE << >>,
                                     query.privacylevel, PRIVACY_HIDE_DOMAINS_CLIENTS,
                                     HIDDEN_CLIENT)
              /\ getClientNameString(query, clients, strpool)
                    = AccessorResult(c, found,
                                     IF c \in DOMAIN clients
                                     THEN getstr(strpool, clients[c].namepos) ELSE << >>,
                                     query.privacylevel, PRIVACY_HIDE_DOMAINS_CLIENTS,
                                     HIDDEN_CLIENT)
    /\ (last.op = "getClientString" /\ last.hidden /\ ~last.found) =>
           last.ret \in {<< >>, HIDDEN_CLIENT}

\* getClientNameString has just returned the placeholder for a hidden query
\* whose client record, freed before, is not found, while another client
\* has a host name.
C22_Witness ==
    /\ last.op = "getClientString" /\ last.name /\ last.hidden /\ ~last.found
    /\ last.ret = HIDDEN_CLIENT
    /\ \E i \in DOMAIN clients : i < counters.clients /\ clients[i].magic = 0
                                 /\ clients[i].ippos > 0
    /\ \E i \in LiveClients : clients[i].namepos > 0

(***************************************************************************)
(* Claims about the liveness of returned slots (under SpecArena).          *)
(***************************************************************************)
\* C23: a non-negative ID that a find-or-create has just returned designates
\* a slot whose liveness tag is the live sentinel, also when freed slots
\* below the count still hold their former name, hash, address or key; a
\* dead slot is never returned as a hit.
C23_ReturnedSlotLive ==
    (last.op = "find" /\ last.ret >= 0) => Slots[last.ret].magic = MAGICBYTE

(***************************************************************************)
(* Claims about the global status getters (under SpecStatus).              *)
(***************************************************************************)
\* C24, as stated: with every query initialised once, get_blocked_count()
\* is the sum of blocked over all overTime slots, get_cached_count() the sum
\* of cached and get_forwarded_count() the sum of forwarded.
C24_GettersMatchBuckets ==
    /\ get_blocked_count(counters.status)
          = SumTo([b \in DOMAIN overTime |-> overTime[b].blocked], OVERTIME_SLOTS - 1)
    /\ get_cached_count(counters.status)
          = SumTo([b \in DOMAIN overTime |-> overTime[b].cached], OVERTIME_SLOTS - 1)
    /\ get_forwarded_count(counters.status)
          = SumTo([b \in DOMAIN overTime |-> overTime[b].forwarded], OVERTIME_SLOTS - 1)

\* C24, amended: get_blocked_count() and get_cached_count() are the sums of
\* blocked and of cached over all overTime slots; get_forwarded_count()
\* is the sum of forwarded plus the number of queries whose status is
\* QUERY_RETRIED or QUERY_RETRIED_DNSSEC, which no slot counts as forwarded.
C24_GettersAndRetried ==
    /\ get_blocked_count(counters.status)
          = SumTo([b \in DOMAIN overTime |-> overTime[b].blocked], OVERTIME_SLOTS - 1)
    /\ get_cached_count(counters.status)
          = SumTo([b \in DOMAIN overTime |-> overTime[b].cached], OVERTIME_SLOTS - 1)
    /\ get_forwarded_count(counters.status)
          = SumTo([b \in DOMAIN overTime |-> overTime[b].forwarded], OVERTIME_SLOTS - 1)
            + Cardinality({q \in GivenQueries :
                              queries[q].status \in {QUERY_RETRIED, QUERY_RETRIED_DNSSEC}})

\* A forwarded query has just been retried while another query is
\* forwarded: the getter counts two, the slots count one.
C24_Witness ==
    /\ last.op = "query_set_status" /\ ~last.init /\ last.changed
    /\ get_forwarded_count(counters.status) = 2
    /\ SumTo([b \in DOMAIN overTime |-> overTime[b].forwarded], OVERTIME_SLOTS - 1) = 1

(***************************************************************************)
(* Claims about the sign of the status counters (under SpecStatusAny).     *)
(***************************************************************************)
\* C25, as stated: after any sequence of calls, a transition of a query
\* that was never given a status and a repeated initial assignment
\* included, every histogram slot and every overTime slot's blocked, cached
\* and forwarded is >= 0.
C25_NoNegativeCounter ==
    /\ \A s \in ValidStatus : counters.status[s] >= 0
    /\ \A b \in DOMAIN overTime :
          overTime[b].blocked >= 0 /\ overTime[b].cached >= 0 /\ overTime[b].forwarded >= 0

\* C25, amended: after any such sequence every overTime slot's blocked,
\* cached and forwarded and every histogram slot other than QUERY_UNKNOWN
\* is >= 0; the slot QUERY_UNKNOWN is not lower than minus the number of
\* queries whose status was changed before they were given one, so it is
\* >= 0 when there is no such query.
C25_NegativeOnlyUnknown ==
    /\ \A s \in ValidStatus \ {QUERY_UNKNOWN} : counters.status[s] >= 0
    /\ \A b \in DOMAIN overTime :
          overTime[b].blocked >= 0 /\ overTime[b].cached >= 0 /\ overTime[b].forwarded >= 0
    /\ counters.status[QUERY_UNKNOWN]
          >= 0 - Cardinality({q \in DOMAIN queries : queries[q].early})

\* An initial assignment has just been repeated on a blocked query, after
\* the other query, never given a status, was moved out of QUERY_UNKNOWN:
\* that histogram slot is below zero.
C25_Witness ==
    /\ last.op = "query_set_status" /\ last.repeated
    /\ counters.status[QUERY_UNKNOWN] < 0
    /\ \E q \in DOMAIN queries : queries[q].early /\ ~queries[q].given
    /\ \E b \in DOMAIN overTime : overTime[b].blocked >= 1 /\ overTime[b].cached >= 1

(***************************************************************************)
(* Claims about the conservation of the client counters (SpecCounters).    *)
(***************************************************************************)
\* C26: with all counters starting at zero and the alias links fixed, after
\* any calls of change_clientcount, on clients and on alias-clients, the
\* global overTime[b].total of every slot b is the sum of overTime[b] over
\* the clients that are no alias-clients, and the count, the blocked count
\* and overTime[b] of every alias-client are the sums of those of the
\* clients linked to it.
C26_ClientConservation ==
    /\ \A b \in 0 .. (OVERTIME_SLOTS - 1) :
          overTime[b].total
              = SumTo([i \in DOMAIN clients |->
                          IF i \in LiveClients /\ ~clients[i].aliasclient
                          THEN clients[i].overTime[b] ELSE 0], MaxSlots - 1)
    /\ \A A \in LiveAliasClients : AliasExcess(clients, A) = 0

(***************************************************************************)
(* Claims about a record under construction (under SpecCreate).            *)
(***************************************************************************)
\* C27: a context that reads the slots [0, count) while a find-or-create
\* creates a record, on a fresh index or on a reused dead slot, never sees
\* a slot tagged live whose key fields are not yet those of the new record
\* (still zeroed, or still those of the slot's previous occupant).
C27_NoHalfBuiltVisible ==
    last.op = "read" => last.keys

====
